---- MODULE Spec2Model ----
(***************************************************************************)
(* Model of the S3-to-S3 transfer engine:                                  *)
(*   common/retry.py      exponential_backoff_with_jitter (the wrapper)    *)
(*   common/s3_client.py  copy_object, multipart_copy                      *)
(*   transfer_object/handler.py  handler                                   *)
(*   common/sts_client.py  the credential cache and assume_role            *)
(*   validate_transfer/handler.py  handler, with head_object               *)
(*                                                                         *)
(* Sizes are counted in an abstract unit: TLC integers are 32 bit wide and *)
(* cannot hold 5 * 2^40, so MAX_OBJECT_SIZE is 5 * TiB with TiB a small    *)
(* scale.  Every comparison and every range computation of the code is     *)
(* kept as written, on the scaled numbers.                                 *)
(***************************************************************************)
EXTENDS Integers, Sequences, FiniteSets, TLC

VARIABLES
    \* ---- inputs of the run
    object_size,                \* event["Size"]
    part_size,                  \* config.multipart_chunk_size_bytes
    multipart_threshold_bytes,  \* config.multipart_threshold_bytes
    \* ---- exponential_backoff_with_jitter: decorator arguments and wrapper locals
    max_attempts, base_delay, max_delay, retryable_exceptions,
    func,            \* the wrapped function of the call in progress
    wpc,             \* wrapper position: idle, call, running, returned, raised
    attempt,         \* loop variable of the wrapper (zero-indexed)
    last_exception,
    delay,           \* the sleep in progress: the value drawn by random.uniform
    invocations,     \* times func was invoked by the wrapper
    sleeps,          \* times time.sleep was called by the wrapper
    outcome,         \* what the wrapper returned or raised
    \* ---- the wrapped function's body
    fpc,             \* position in the body
    fres,            \* what the body returned or raised
    upload_id, num_parts, part_num, parts, exc,
    \* ---- the remote object store, as the s3 client shows it
    next_upload_id,  \* ids handed out by create_multipart_upload
    uploads,         \* upload id -> open, completed, aborted, abort_issued
    calls,           \* remote calls issued by the current invocation of func
    ncalls,          \* remote calls issued in the whole run, per operation
    faults,          \* failed calls of the multipart operations in the whole run
    \* ---- transfer_object.handler
    hpc,             \* handler position
    paths,           \* times the handler entered copy_object / multipart_copy
    herror,          \* the error the handler let propagate
    \* ---- destination key derivation of the two handlers
    source_key,      \* event["Key"] / obj["Key"], a sequence of characters
    source_prefix,   \* the source prefix the handler reads
    dest_prefix,     \* the destination prefix the handler reads
    dest_key,        \* handler -> the destination key it derived
    derived,         \* the handlers that derived their key
    \* ---- validate_transfer.handler
    objects,         \* manifest["objects"]: records with Key and Size
    dest_sizes,      \* the destination bucket: ContentLength at the destination
                     \* key of objects[i], or Missing
    validation_sample_size,   \* config.validation_sample_size
    vpc,             \* handler position
    pages,           \* pages of the destination listing read so far
    dest_count,
    samples,         \* random.sample(...): positions in objects
    sample_i,        \* samples the loop has finished
    samples_passed,
    failures,
    probe_log,       \* position and outcome of every finished probe
    head_calls,      \* remote head_object calls issued in the run
    vresult,         \* the result dict
    verror,          \* the error the handler raised
    \* ---- common/sts_client.py
    credential_cache,   \* _credential_cache: role -> entry, NoEntry when absent
    now,             \* time.time()
    role_arn,        \* the role of the acquisition in progress
    spc,             \* caller position: idle, acquiring
    sts_calls,       \* remote assume_role calls of the acquisition in progress
    next_cred,       \* credentials the remote service handed out so far
    issued,          \* role -> the last credential the remote service issued
    inv,             \* the cache check of the last invocation of assume_role
    history,         \* the acquisitions that ended
    call_args,       \* session_name, external_id, duration_seconds of the call
    granted,         \* role -> the ExternalId its last credential was issued for
    cleared,         \* roles with no remote call since clear_credential_cache
    \* ---- threads of one process inside assume_role at the same time
    tpc,             \* thread -> position in assume_role
    tattempt,        \* thread -> attempt of the wrapper
    tresp,           \* thread -> the entry built from the response it holds
    tret,            \* thread -> what assume_role returned or raised
    responses,       \* the entries of every successful response
    stored,          \* the entries written to the cache, in the order written
    \* ---- common/s3_client.py: list_objects_paginated and its caller
    lpc,             \* caller position: start, calling, iterating, done, failed
    bucket_pages,    \* the pages the service answers with: objects per page
    page_i,          \* pages the generator has fetched
    listed,          \* objects the generator has yielded to the caller
    list_calls,      \* remote list_objects_v2 calls issued
    lerror,          \* the error that reached the caller
    \* ---- the destination bucket
    dest_objects,    \* key -> the object stored under it, NoObject when absent
    receipts         \* the outcome of every handler invocation that ended

vars == << object_size, part_size, multipart_threshold_bytes,
           max_attempts, base_delay, max_delay, retryable_exceptions,
           func, wpc, attempt, last_exception, delay, invocations, sleeps, outcome,
           fpc, fres, upload_id, num_parts, part_num, parts, exc,
           next_upload_id, uploads, calls, ncalls, faults, hpc, paths, herror,
           source_key, source_prefix, dest_prefix, dest_key, derived,
           objects, dest_sizes, validation_sample_size, vpc, pages, dest_count,
           samples, sample_i, samples_passed, failures, probe_log, head_calls,
           vresult, verror,
           credential_cache, now, role_arn, spc, sts_calls, next_cred, issued,
           inv, history, call_args, granted, cleared, tpc, tattempt, tresp, tret, responses, stored,
           lpc, bucket_pages, page_i, listed, list_calls, lerror,
           dest_objects, receipts >>

inputVars == << object_size, part_size, multipart_threshold_bytes >>
decoVars  == << max_attempts, base_delay, max_delay, retryable_exceptions >>
mpcVars   == << upload_id, num_parts, part_num, parts, exc >>
s3Vars    == << next_upload_id, uploads, calls, ncalls, faults >>
handlerVars == << hpc, paths, herror >>
keyVars   == << source_key, source_prefix, dest_prefix, dest_key, derived >>
\* the state of the components around the transfer of one object
valInputVars == << objects, dest_sizes, validation_sample_size >>
valVars   == << valInputVars, vpc, pages, dest_count, samples, sample_i,
                samples_passed, failures, probe_log, head_calls, vresult, verror >>
argVars   == << call_args, granted, cleared >>
stsVars   == << credential_cache, now, role_arn, spc, sts_calls, next_cred,
                issued, inv, history, argVars >>
threadVars == << tpc, tattempt, tresp, tret, responses, stored >>
listVars  == << lpc, bucket_pages, page_i, listed, list_calls, lerror >>
storeVars == << dest_objects, receipts >>
outerVars == << keyVars, valVars, stsVars, threadVars, listVars, storeVars >>

-----------------------------------------------------------------------------
\* Bounds of the model
TiB == 1              \* scale of the size unit
MaxPartSize == 3      \* part sizes 0..MaxPartSize
MaxParts == 3         \* inputs are kept to at most this many parts
MaxTag == 2           \* part tags the store may return
MaxFaults == 2        \* failed calls of the multipart operations in one run
MaxAttempts == 3      \* max_attempts of the generic wrapped operation
MaxBaseDelay == 2
MaxMaxDelay == 3
MaxKeyLen == 3        \* keys of at most this many characters
MaxPrefixLen == 2     \* prefixes of at most this many characters
MaxInventory == 2     \* objects in the manifest
MaxPages == 2         \* pages of the destination listing
MaxTicks == 3         \* steps of the clock
MaxAcquires == 2      \* acquisitions of credentials in one process
MaxRuns == 2          \* invocations of the transfer handler for one task
MaxListPages == 2     \* pages of a listing
MaxPageObjects == 2   \* objects of a page
MaxThreads == 2       \* threads in assume_role at the same time

-----------------------------------------------------------------------------
\* common/exceptions.py: the hierarchy, plus the builtin and botocore classes
\* the code meets.
Parent(c) ==
    CASE c = "TransferError" -> "Exception"
      [] c = "RetryableError" -> "TransferError"
      [] c = "NonRetryableError" -> "TransferError"
      [] c = "AccessDeniedError" -> "NonRetryableError"
      [] c = "ObjectTooLargeError" -> "NonRetryableError"
      [] c = "ManifestError" -> "NonRetryableError"
      [] c = "ValidationError" -> "NonRetryableError"
      [] c = "ClientError" -> "Exception"
      [] c = "EndpointConnectionError" -> "Exception"
      [] c = "ZeroDivisionError" -> "Exception"
      [] c = "ValueError" -> "Exception"
      [] OTHER -> "BaseException"

RECURSIVE IsSubclass(_, _)
IsSubclass(c, d) ==
    IF c = d THEN TRUE
    ELSE IF c = "BaseException" THEN FALSE
    ELSE IsSubclass(Parent(c), d)

\* isinstance(e, classes) for a tuple of classes
IsInstance(e, classes) == \E d \in classes : IsSubclass(e.cls, d)

NoExc == [cls |-> "None", op |-> "none", code |-> "none", at |-> 0]
Raise(c, o, k, n) == [cls |-> c, op |-> o, code |-> k, at |-> n]

NoRes == [kind |-> "none", val |-> 0, exc |-> NoExc]
Returned(v) == [kind |-> "ok", val |-> v, exc |-> NoExc]
Raised(e) == [kind |-> "exc", val |-> 0, exc |-> e]

-----------------------------------------------------------------------------
\* common/s3_client.py constants
MAX_OBJECT_SIZE == 5 * TiB
S3_MAX_ATTEMPTS == 5
S3_BASE_DELAY == 1
S3_MAX_DELAY == 60

ErrorCodes == {"AccessDenied", "403", "SlowDown", "503", "RequestTimeout",
               "InternalError", "NoSuchKey"}

\* mutant: the numeric denial code is not recognised
ClassifyS3ErrorNo403(error_code) ==
    IF error_code = "AccessDenied" THEN "AccessDeniedError" ELSE "RetryableError"

\* _classify_s3_error: the class of the exception it returns
ClassifyS3Error(error_code) ==
    IF error_code \in {"AccessDenied", "403"} THEN "AccessDeniedError"
    ELSE IF error_code \in {"SlowDown", "503", "RequestTimeout", "InternalError"}
         THEN "RetryableError"
    ELSE "RetryableError"

Min(a, b) == IF a <= b THEN a ELSE b

RECURSIVE Pow2(_)
Pow2(n) == IF n = 0 THEN 1 ELSE 2 * Pow2(n - 1)

\* math.ceil(object_size / part_size) for part_size > 0.  The code divides as
\* floats; both operands are at most 5 * 2^40 < 2^53 there (the size guard),
\* so the quotient is correctly rounded and its ceiling is the exact one.
CeilDiv(a, b) == (a + b - 1) \div b

NumParts(size, psize) == CeilDiv(size, psize)

\* mutant: the end of a part is the first byte of the next one
PartEndInclusive(part_n, psize, size) == Min(part_n * psize, size - 1)

\* start, end and the CopySourceRange string of part part_n
PartStart(part_n, psize) == (part_n - 1) * psize
PartEnd(part_n, psize, size) == Min(part_n * psize - 1, size - 1)
ByteRange(start, end) == << "bytes=", start, "-", end >>

-----------------------------------------------------------------------------
\* The destination bucket as the copy calls act on it.  An object is the
\* sequence of its bytes, a byte of the source being named by its offset.
TaskKey == "dest_key"
OtherKey == "other_key"
StoreKeys == {TaskKey, OtherKey}
NoObject == << -1 >>
OtherObject == << 7 >>

\* the object under CopySource
SourceObject == [i \in 1..object_size |-> i - 1]

\* the bytes of the source a CopySourceRange names
RangeBytes(r) == [i \in 1..(r[4] - r[2] + 1) |-> r[2] + i - 1]

\* mutant: the key of the copy depends on the invocation
CopyTargetPerRun(key, run) == IF run = 1 THEN key ELSE OtherKey

\* Key=dest_key of copy_object and of the multipart calls
CopyTarget(key, run) == key

\* copy_object(CopySource, Bucket, Key): the source object is under Key
PutCopy(store, key) == [store EXCEPT ![key] = SourceObject]

\* the bytes of part n: the range of its last successful upload_part_copy
PartBytes(n, log) ==
    LET cs == SelectSeq(log, LAMBDA c : c.op = "upload_part_copy" /\ c.ok /\ c.part = n)
    IN  IF cs = << >> THEN << >> ELSE RangeBytes(cs[Len(cs)].range)

\* complete_multipart_upload(Key, UploadId, Parts): the parts listed, in order
RECURSIVE Assemble(_, _)
Assemble(pl, log) ==
    IF pl = << >> THEN << >>
    ELSE PartBytes(Head(pl).PartNumber, log) \o Assemble(Tail(pl), log)

PutAssembled(store, key, pl, log) == [store EXCEPT ![key] = Assemble(pl, log)]

-----------------------------------------------------------------------------
\* The remote calls as the client shows them

Ops == {"copy_object", "create_multipart_upload", "upload_part_copy",
        "complete_multipart_upload", "abort_multipart_upload"}

Call(o, u, p, r, t, ok, pl) ==
    [op |-> o, upload |-> u, part |-> p, range |-> r, etag |-> t, ok |-> ok, parts |-> pl]

NoRange == << "bytes=", 0, "-", 0 >>

Record(c) ==
    /\ calls' = Append(calls, c)
    /\ ncalls' = [ncalls EXCEPT ![c.op] = @ + 1]
    /\ faults' = IF c.ok \/ c.op = "copy_object" THEN faults ELSE faults + 1

\* What a call of the client handed to multipart_copy may raise: botocore's
\* ClientError with an error code, and, from a client or test double that
\* raises the taxonomy's errors itself, RetryableError and NonRetryableError
\* (the only way the wrapper around multipart_copy ever retries).
MpcFailures ==
    { Raise("ClientError", "x", k, 0) : k \in {"SlowDown", "AccessDenied"} }
    \cup { Raise(c, "x", "none", 0) : c \in {"RetryableError", "NonRetryableError"} }

FailureAt(f, o) == [f EXCEPT !.op = o, !.at = invocations]

Tags == 1..MaxTag

-----------------------------------------------------------------------------
\* exponential_backoff_with_jitter.wrapper

\* the decorated call starts
StartWrapped(f, n, b, m, r) ==
    /\ func' = f
    /\ max_attempts' = n
    /\ base_delay' = b
    /\ max_delay' = m
    /\ retryable_exceptions' = r
    /\ wpc' = "call"
    /\ attempt' = 0
    /\ last_exception' = NoExc
    /\ invocations' = 0
    /\ sleeps' = 0
    /\ outcome' = NoRes
    /\ fpc' = "idle"
    /\ fres' = NoRes

\* for attempt in range(max_attempts): try: return func(*args, **kwargs)
WrapperInvoke ==
    /\ wpc = "call"
    /\ attempt < max_attempts
    /\ wpc' = "running"
    /\ invocations' = invocations + 1
    /\ fpc' = "entry"
    /\ fres' = NoRes
    /\ calls' = << >>
    /\ upload_id' = 0
    /\ num_parts' = 0
    /\ part_num' = 0
    /\ parts' = << >>
    /\ exc' = NoExc
    /\ delay' = 0
    /\ UNCHANGED << inputVars, outerVars, decoVars, func, attempt, last_exception, sleeps,
                    outcome, next_upload_id, uploads, ncalls, faults, handlerVars >>

wrapperFrame == << inputVars, outerVars, decoVars, func, invocations, fpc, fres, mpcVars, s3Vars,
                   handlerVars >>

\* mutant: the except clause catches the base class of the taxonomy
IsRetryableBase(e, classes) == IsInstance(e, classes \cup {"TransferError"})

\* except retryable_exceptions as e
IsRetryable(e, classes) == IsInstance(e, classes)

\* mutant: the last attempt is recognised one pass late
IsLastAttemptLate(a, n) == a = n

\* if attempt == max_attempts - 1
IsLastAttempt(a, n) == a = n - 1

\* mutant: the result is kept and the loop goes on to its end
WrapperReturnNoExit ==
    /\ wpc = "running" /\ fpc = "exit" /\ fres.kind = "ok"
    /\ outcome' = fres
    /\ attempt' = attempt + 1
    /\ wpc' = IF attempt = max_attempts - 1 THEN "returned" ELSE "call"
    /\ UNCHANGED << wrapperFrame, last_exception, delay, sleeps >>

\* return func(...)
WrapperReturn ==
    /\ wpc = "running" /\ fpc = "exit" /\ fres.kind = "ok"
    /\ wpc' = "returned"
    /\ outcome' = fres
    /\ UNCHANGED << wrapperFrame, attempt, last_exception, delay, sleeps >>

\* mutant: the limit is not capped by max_delay
DelayCapUncapped(a) == base_delay * Pow2(a)

\* the upper limit handed to random.uniform
DelayCap(a) == Min(max_delay, base_delay * Pow2(a))

\* mutant: on the last attempt the failure of the attempt before is raised
WrapperExhaustedEarlier ==
    /\ wpc = "running" /\ fpc = "exit" /\ fres.kind = "exc"
    /\ IsRetryable(fres.exc, retryable_exceptions)
    /\ IsLastAttempt(attempt, max_attempts)
    /\ wpc' = "raised"
    /\ outcome' = IF last_exception = NoExc THEN fres ELSE Raised(last_exception)
    /\ UNCHANGED << wrapperFrame, attempt, last_exception, delay, sleeps >>

\* except retryable_exceptions as e, on the last attempt: raise
WrapperExhausted ==
    /\ wpc = "running" /\ fpc = "exit" /\ fres.kind = "exc"
    /\ IsRetryable(fres.exc, retryable_exceptions)
    /\ IsLastAttempt(attempt, max_attempts)
    /\ last_exception' = fres.exc
    /\ wpc' = "raised"
    /\ outcome' = fres
    /\ UNCHANGED << wrapperFrame, attempt, delay, sleeps >>

\* mutant: the loop variable is not advanced by a retry
WrapperBackoffSameAttempt ==
    /\ wpc = "running" /\ fpc = "exit" /\ fres.kind = "exc"
    /\ IsRetryable(fres.exc, retryable_exceptions)
    /\ ~IsLastAttempt(attempt, max_attempts)
    /\ last_exception' = fres.exc
    /\ \E d \in 0..DelayCap(attempt) : delay' = d
    /\ sleeps' = Min(sleeps + 1, max_attempts)
    /\ wpc' = "call"
    /\ UNCHANGED << wrapperFrame, outcome, attempt >>

\* except retryable_exceptions as e, before the last attempt: sleep, next attempt
WrapperBackoff ==
    /\ wpc = "running" /\ fpc = "exit" /\ fres.kind = "exc"
    /\ IsRetryable(fres.exc, retryable_exceptions)
    /\ ~IsLastAttempt(attempt, max_attempts)
    /\ last_exception' = fres.exc
    /\ \E d \in 0..DelayCap(attempt) : delay' = d
    /\ sleeps' = sleeps + 1
    /\ attempt' = attempt + 1
    /\ wpc' = "call"
    /\ UNCHANGED << wrapperFrame, outcome >>

\* except NonRetryableError: raise
WrapperNonRetryable ==
    /\ wpc = "running" /\ fpc = "exit" /\ fres.kind = "exc"
    /\ ~IsRetryable(fres.exc, retryable_exceptions)
    /\ IsInstance(fres.exc, {"NonRetryableError"})
    /\ wpc' = "raised"
    /\ outcome' = fres
    /\ UNCHANGED << wrapperFrame, attempt, last_exception, delay, sleeps >>

\* mutant: an exception no except clause names is slept on and retried
WrapperUncaughtRetried ==
    /\ wpc = "running" /\ fpc = "exit" /\ fres.kind = "exc"
    /\ ~IsRetryable(fres.exc, retryable_exceptions)
    /\ ~IsInstance(fres.exc, {"NonRetryableError"})
    /\ last_exception' = fres.exc
    /\ delay' = 0
    /\ sleeps' = IF IsLastAttempt(attempt, max_attempts) THEN sleeps ELSE sleeps + 1
    /\ attempt' = IF IsLastAttempt(attempt, max_attempts) THEN attempt ELSE attempt + 1
    /\ wpc' = IF IsLastAttempt(attempt, max_attempts) THEN "raised" ELSE "call"
    /\ outcome' = IF IsLastAttempt(attempt, max_attempts) THEN fres ELSE outcome
    /\ UNCHANGED wrapperFrame

\* an exception no except clause matches leaves the wrapper as it is
WrapperUncaught ==
    /\ wpc = "running" /\ fpc = "exit" /\ fres.kind = "exc"
    /\ ~IsRetryable(fres.exc, retryable_exceptions)
    /\ ~IsInstance(fres.exc, {"NonRetryableError"})
    /\ wpc' = "raised"
    /\ outcome' = fres
    /\ UNCHANGED << wrapperFrame, attempt, last_exception, delay, sleeps >>

-----------------------------------------------------------------------------
\* A generic wrapped operation (tests/unit/test_retry.py): it returns a value
\* or raises.
OpRaises == {"RetryableError", "NonRetryableError", "AccessDeniedError",
             "ObjectTooLargeError", "ValueError"}

bodyFrame == << inputVars, outerVars, decoVars, func, wpc, attempt, last_exception, delay,
                invocations, sleeps, outcome, handlerVars >>

\* the frame of a body step that writes an object to the destination bucket
writeFrame == << inputVars, keyVars, valVars, stsVars, threadVars, listVars, receipts,
                 decoVars, func, wpc, attempt, last_exception, delay, invocations, sleeps,
                 outcome, handlerVars >>

OpReturns ==
    /\ wpc = "running" /\ func = "op" /\ fpc = "entry"
    /\ fres' = Returned(invocations)
    /\ fpc' = "exit"
    /\ UNCHANGED << bodyFrame, mpcVars, s3Vars >>

OpRaisesError ==
    /\ wpc = "running" /\ func = "op" /\ fpc = "entry"
    /\ \E c \in OpRaises : fres' = Raised(Raise(c, "op", "none", invocations))
    /\ fpc' = "exit"
    /\ UNCHANGED << bodyFrame, mpcVars, s3Vars >>

-----------------------------------------------------------------------------
\* common/s3_client.py: copy_object (one remote call, ClientError classified)

CopyObjectOk ==
    /\ wpc = "running" /\ func = "copy_object" /\ fpc = "entry"
    /\ Record(Call("copy_object", 0, 0, NoRange, 0, TRUE, << >>))
    /\ dest_objects' = PutCopy(dest_objects, CopyTarget(TaskKey, Len(receipts) + 1))
    /\ fres' = Returned(invocations)
    /\ fpc' = "exit"
    /\ UNCHANGED << writeFrame, mpcVars, next_upload_id, uploads >>

\* mutant: the ClientError leaves copy_object as it came
CopyObjectClientErrorRaw ==
    /\ wpc = "running" /\ func = "copy_object" /\ fpc = "entry"
    /\ Record(Call("copy_object", 0, 0, NoRange, 0, FALSE, << >>))
    /\ \E k \in ErrorCodes :
         fres' = Raised(Raise("ClientError", "copy_object", k, invocations))
    /\ fpc' = "exit"
    /\ UNCHANGED << bodyFrame, mpcVars, next_upload_id, uploads >>

\* except s3_client.exceptions.ClientError as e: raise _classify_s3_error(e, ...)
CopyObjectClientError ==
    /\ wpc = "running" /\ func = "copy_object" /\ fpc = "entry"
    /\ Record(Call("copy_object", 0, 0, NoRange, 0, FALSE, << >>))
    /\ \E k \in ErrorCodes :
         fres' = Raised(Raise(ClassifyS3Error(k), "copy_object", k, invocations))
    /\ fpc' = "exit"
    /\ UNCHANGED << bodyFrame, mpcVars, next_upload_id, uploads >>

\* a failure that is no ClientError (no connection) passes the except clause
CopyObjectOtherError ==
    /\ wpc = "running" /\ func = "copy_object" /\ fpc = "entry"
    /\ Record(Call("copy_object", 0, 0, NoRange, 0, FALSE, << >>))
    /\ fres' = Raised(Raise("EndpointConnectionError", "copy_object", "none", invocations))
    /\ fpc' = "exit"
    /\ UNCHANGED << bodyFrame, mpcVars, next_upload_id, uploads >>

-----------------------------------------------------------------------------
\* common/s3_client.py: multipart_copy

\* mutant: the maximum itself is rejected
TooLargeOrEqual(size) == size >= MAX_OBJECT_SIZE

\* if object_size > MAX_OBJECT_SIZE: raise ObjectTooLargeError
TooLarge(size) == size > MAX_OBJECT_SIZE

MpcGuard ==
    /\ wpc = "running" /\ func = "multipart_copy" /\ fpc = "entry"
    /\ IF TooLarge(object_size)
       THEN /\ fres' = Raised(Raise("ObjectTooLargeError", "guard", "none", invocations))
            /\ fpc' = "exit"
       ELSE /\ fres' = fres
            /\ fpc' = "create"
    /\ UNCHANGED << bodyFrame, mpcVars, s3Vars >>

\* response = create_multipart_upload(...); upload_id = response["UploadId"];
\* num_parts = math.ceil(object_size / part_size)
MpcCreateOk ==
    /\ wpc = "running" /\ func = "multipart_copy" /\ fpc = "create"
    /\ Record(Call("create_multipart_upload", next_upload_id, 0, NoRange, 0, TRUE, << >>))
    /\ upload_id' = next_upload_id
    /\ next_upload_id' = next_upload_id + 1
    /\ uploads' = Append(uploads, "open")
    /\ parts' = << >>
    /\ IF part_size = 0
       THEN /\ exc' = Raise("ZeroDivisionError", "ceil", "none", invocations)
            /\ fpc' = "except"
            /\ UNCHANGED << num_parts, part_num >>
       ELSE /\ num_parts' = NumParts(object_size, part_size)
            /\ part_num' = 1
            /\ fpc' = IF NumParts(object_size, part_size) >= 1 THEN "part" ELSE "complete"
            /\ exc' = exc
    /\ UNCHANGED << bodyFrame, fres >>

MpcCreateFails ==
    /\ faults < MaxFaults
    /\ wpc = "running" /\ func = "multipart_copy" /\ fpc = "create"
    /\ Record(Call("create_multipart_upload", 0, 0, NoRange, 0, FALSE, << >>))
    /\ \E f \in MpcFailures : exc' = FailureAt(f, "create_multipart_upload")
    /\ fpc' = "except"
    /\ UNCHANGED << bodyFrame, fres, upload_id, num_parts, part_num, parts,
                    next_upload_id, uploads >>

\* mutant: the loop runs over range(1, num_parts)
AfterPartShort(part_n) == IF part_n < num_parts - 1 THEN "part" ELSE "complete"

\* the position after part part_n of the loop over range(1, num_parts + 1)
AfterPart(part_n) == IF part_n < num_parts THEN "part" ELSE "complete"

\* one pass of the loop: upload_part_copy answers, parts.append(...)
MpcPartOk ==
    /\ wpc = "running" /\ func = "multipart_copy" /\ fpc = "part"
    /\ \E t \in Tags :
         /\ Record(Call("upload_part_copy", upload_id, part_num,
                        ByteRange(PartStart(part_num, part_size),
                                  PartEnd(part_num, part_size, object_size)),
                        t, TRUE, << >>))
         /\ parts' = Append(parts, [PartNumber |-> part_num, ETag |-> t])
    /\ part_num' = part_num + 1
    /\ fpc' = AfterPart(part_num)
    /\ UNCHANGED << bodyFrame, fres, upload_id, num_parts, exc, next_upload_id, uploads >>

MpcPartFails ==
    /\ faults < MaxFaults
    /\ wpc = "running" /\ func = "multipart_copy" /\ fpc = "part"
    /\ Record(Call("upload_part_copy", upload_id, part_num,
                   ByteRange(PartStart(part_num, part_size),
                             PartEnd(part_num, part_size, object_size)),
                   0, FALSE, << >>))
    /\ \E f \in MpcFailures : exc' = FailureAt(f, "upload_part_copy")
    /\ fpc' = "except"
    /\ UNCHANGED << bodyFrame, fres, upload_id, num_parts, part_num, parts,
                    next_upload_id, uploads >>

\* mutant: the cleanup of the except clause runs after a completion as well
MpcCompleteOkThenCleanup ==
    /\ wpc = "running" /\ func = "multipart_copy" /\ fpc = "complete"
    /\ Record(Call("complete_multipart_upload", upload_id, 0, NoRange, 0, TRUE, parts))
    /\ uploads' = [uploads EXCEPT ![upload_id] = "completed"]
    /\ dest_objects' = PutAssembled(dest_objects, CopyTarget(TaskKey, Len(receipts) + 1),
                                    parts, calls)
    /\ fres' = fres
    /\ fpc' = "except"
    /\ UNCHANGED << writeFrame, mpcVars, next_upload_id >>

\* result = complete_multipart_upload(..., MultipartUpload={"Parts": parts})
MpcCompleteOk ==
    /\ wpc = "running" /\ func = "multipart_copy" /\ fpc = "complete"
    /\ Record(Call("complete_multipart_upload", upload_id, 0, NoRange, 0, TRUE, parts))
    /\ uploads' = [uploads EXCEPT ![upload_id] = "completed"]
    /\ dest_objects' = PutAssembled(dest_objects, CopyTarget(TaskKey, Len(receipts) + 1),
                                    parts, calls)
    /\ fres' = Returned(invocations)
    /\ fpc' = "exit"
    /\ UNCHANGED << writeFrame, mpcVars, next_upload_id >>

MpcCompleteFails ==
    /\ faults < MaxFaults
    /\ wpc = "running" /\ func = "multipart_copy" /\ fpc = "complete"
    /\ Record(Call("complete_multipart_upload", upload_id, 0, NoRange, 0, FALSE, parts))
    /\ \E f \in MpcFailures : exc' = FailureAt(f, "complete_multipart_upload")
    /\ fpc' = "except"
    /\ UNCHANGED << bodyFrame, fres, upload_id, num_parts, part_num, parts,
                    next_upload_id, uploads >>

\* mutants: the test of the upload id inverted, and left out
ShouldAbortInverted(uid) == uid = 0
ShouldAbortAlways(uid) == TRUE

\* except Exception: if upload_id: -- the truth value of the upload id
ShouldAbort(uid) == uid # 0

\* mutant: a failure of the abort call replaces the exception being handled
ReraisedAbortFailure(original, abort_failure) ==
    IF abort_failure = NoExc THEN original ELSE abort_failure

\* what the except clause lets out: the bare raise re-raises the exception
\* being handled, whatever the abort call did
Reraised(original, abort_failure) == original

\* mutant: an error the wrapper retries is re-raised without the abort call
MpcAbortOkSkipsRetryable ==
    /\ wpc = "running" /\ func = "multipart_copy" /\ fpc = "except"
    /\ ShouldAbort(upload_id)
    /\ IF exc.cls = "RetryableError"
       THEN UNCHANGED s3Vars
       ELSE /\ Record(Call("abort_multipart_upload", upload_id, 0, NoRange, 0, TRUE, << >>))
            /\ uploads' = [uploads EXCEPT ![upload_id] = "aborted"]
            /\ next_upload_id' = next_upload_id
    /\ fres' = Raised(Reraised(exc, NoExc))
    /\ fpc' = "exit"
    /\ UNCHANGED << bodyFrame, mpcVars >>

\* if upload_id: try: abort_multipart_upload(...)  -- the call answers
MpcAbortOk ==
    /\ wpc = "running" /\ func = "multipart_copy" /\ fpc = "except"
    /\ ShouldAbort(upload_id)
    /\ Record(Call("abort_multipart_upload", upload_id, 0, NoRange, 0, TRUE, << >>))
    /\ uploads' = [uploads EXCEPT ![upload_id] = "aborted"]
    /\ fres' = Raised(Reraised(exc, NoExc))
    /\ fpc' = "exit"
    /\ UNCHANGED << bodyFrame, mpcVars, next_upload_id >>

\* ... except Exception: logger.error(...)  -- the abort call fails; then raise
MpcAbortFails ==
    /\ faults < MaxFaults
    /\ wpc = "running" /\ func = "multipart_copy" /\ fpc = "except"
    /\ ShouldAbort(upload_id)
    /\ Record(Call("abort_multipart_upload", upload_id, 0, NoRange, 0, FALSE, << >>))
    /\ uploads' = [uploads EXCEPT ![upload_id] = "abort_issued"]
    /\ \E f \in MpcFailures :
         fres' = Raised(Reraised(exc, FailureAt(f, "abort_multipart_upload")))
    /\ fpc' = "exit"
    /\ UNCHANGED << bodyFrame, mpcVars, next_upload_id >>

\* no upload id: raise at once
MpcReraise ==
    /\ wpc = "running" /\ func = "multipart_copy" /\ fpc = "except"
    /\ ~ShouldAbort(upload_id)
    /\ fres' = Raised(exc)
    /\ fpc' = "exit"
    /\ UNCHANGED << bodyFrame, mpcVars, s3Vars >>

-----------------------------------------------------------------------------
\* transfer_object/handler.py: handler

\* credentials = assume_role(...); dest_s3 = get_boto3_client(...)
HandlerAssumeRole ==
    /\ hpc = "start"
    /\ \/ /\ hpc' = "decide"
          /\ herror' = herror
       \/ /\ hpc' = "failed"
          /\ \E c \in {"AccessDeniedError", "RetryableError"} :
               herror' = Raise(c, "assume_role", "none", 0)
    /\ UNCHANGED << inputVars, outerVars, decoVars, func, wpc, attempt, last_exception, delay,
                    invocations, sleeps, outcome, fpc, fres, mpcVars, s3Vars, paths >>

\* mutant: the threshold itself goes the single-copy way
SingleCopyInclusive(size, threshold) == size <= threshold

\* if object_size < config.multipart_threshold_bytes
SingleCopy(size, threshold) == size < threshold

handlerCallFrame == << inputVars, outerVars, delay, mpcVars, s3Vars, herror >>

HandlerCopyObject ==
    /\ hpc = "decide"
    /\ SingleCopy(object_size, multipart_threshold_bytes)
    /\ StartWrapped("copy_object", S3_MAX_ATTEMPTS, S3_BASE_DELAY, S3_MAX_DELAY,
                    {"RetryableError"})
    /\ paths' = [paths EXCEPT !["copy_object"] = @ + 1]
    /\ hpc' = "copying"
    /\ UNCHANGED handlerCallFrame

HandlerMultipartCopy ==
    /\ hpc = "decide"
    /\ ~SingleCopy(object_size, multipart_threshold_bytes)
    /\ StartWrapped("multipart_copy", S3_MAX_ATTEMPTS, S3_BASE_DELAY, S3_MAX_DELAY,
                    {"RetryableError"})
    /\ paths' = [paths EXCEPT !["multipart_copy"] = @ + 1]
    /\ hpc' = "copying"
    /\ UNCHANGED handlerCallFrame

\* mutant: the failure of the copy is logged and the receipt returned
HandlerFailsSwallowed ==
    /\ hpc = "copying" /\ wpc = "raised"
    /\ hpc' = "done"
    /\ UNCHANGED << inputVars, outerVars, decoVars, func, wpc, attempt, last_exception, delay,
                    invocations, sleeps, outcome, fpc, fres, mpcVars, s3Vars, paths,
                    herror >>

\* except Exception as e: log; raise
HandlerFails ==
    /\ hpc = "copying" /\ wpc = "raised"
    /\ hpc' = "failed"
    /\ herror' = outcome.exc
    /\ UNCHANGED << inputVars, outerVars, decoVars, func, wpc, attempt, last_exception, delay,
                    invocations, sleeps, outcome, fpc, fres, mpcVars, s3Vars, paths >>

\* return {"status": "SUCCESS", ...}
HandlerSucceeds ==
    /\ hpc = "copying" /\ wpc = "returned"
    /\ hpc' = "done"
    /\ UNCHANGED << inputVars, outerVars, decoVars, func, wpc, attempt, last_exception, delay,
                    invocations, sleeps, outcome, fpc, fres, mpcVars, s3Vars, paths,
                    herror >>

\* the handler is invoked again with the same event (a retried or re-delivered
\* task): a new invocation starts, the destination bucket is what the calls of
\* the invocations before left there
HandlerReinvoke ==
    /\ hpc \in {"done", "failed"}
    /\ Len(receipts) < MaxRuns - 1
    /\ receipts' = Append(receipts, IF hpc = "done" THEN "SUCCESS" ELSE "FAILED")
    /\ hpc' = "start"
    /\ paths' = [f \in {"copy_object", "multipart_copy"} |-> 0]
    /\ herror' = NoExc
    /\ func' = "none"
    /\ wpc' = "idle"
    /\ attempt' = 0
    /\ last_exception' = NoExc
    /\ delay' = 0
    /\ invocations' = 0
    /\ sleeps' = 0
    /\ outcome' = NoRes
    /\ fpc' = "idle"
    /\ fres' = NoRes
    /\ upload_id' = 0
    /\ num_parts' = 0
    /\ part_num' = 0
    /\ parts' = << >>
    /\ exc' = NoExc
    /\ calls' = << >>
    /\ ncalls' = [o \in Ops |-> 0]
    /\ UNCHANGED << inputVars, decoVars, next_upload_id, uploads, faults, dest_objects,
                    keyVars, valVars, stsVars, threadVars, listVars >>

-----------------------------------------------------------------------------
\* common/s3_client.py: list_objects_paginated, a generator function under the
\* retry decorator, and a caller that enumerates it: list(list_objects_paginated(...))

LIST_MAX_ATTEMPTS == 5
LIST_BASE_DELAY == 1
LIST_MAX_DELAY == 60

listCallerFrame == << inputVars, decoVars, func, wpc, attempt, last_exception, delay,
                      invocations, sleeps, outcome, fpc, fres, mpcVars, s3Vars,
                      handlerVars, keyVars, valVars, stsVars, threadVars, storeVars,
                      bucket_pages >>

\* the caller calls the decorated function
ListCall ==
    /\ lpc = "start"
    /\ StartWrapped("list_objects_paginated", LIST_MAX_ATTEMPTS, LIST_BASE_DELAY,
                    LIST_MAX_DELAY, {"RetryableError"})
    /\ lpc' = "calling"
    /\ UNCHANGED << inputVars, delay, mpcVars, s3Vars, handlerVars, keyVars, valVars,
                    stsVars, threadVars, storeVars, bucket_pages, page_i, listed,
                    list_calls, lerror >>

\* func(*args, **kwargs) of a generator function: none of the body runs, the
\* generator object is returned
ListReturnsGenerator ==
    /\ wpc = "running" /\ func = "list_objects_paginated" /\ fpc = "entry"
    /\ fres' = Returned(0)
    /\ fpc' = "exit"
    /\ UNCHANGED << bodyFrame, mpcVars, s3Vars >>

\* the wrapper has returned the generator: the caller starts to enumerate it
ListIterate ==
    /\ lpc = "calling" /\ wpc = "returned"
    /\ lpc' = "iterating"
    /\ UNCHANGED << listCallerFrame, page_i, listed, list_calls, lerror >>

\* for page in paginator.paginate(...): for obj in page.get("Contents", []): yield
GenPage ==
    /\ lpc = "iterating" /\ page_i < Len(bucket_pages)
    /\ list_calls' = list_calls + 1
    /\ page_i' = page_i + 1
    /\ listed' = listed + bucket_pages[page_i + 1]
    /\ UNCHANGED << listCallerFrame, lpc, lerror >>

\* except ClientError as e: raise _classify_s3_error(e, "list_objects_v2"),
\* raised in the frame of the caller that asked for the next object
GenPageClientError ==
    /\ lpc = "iterating" /\ page_i < Len(bucket_pages)
    /\ list_calls' = list_calls + 1
    /\ \E k \in ErrorCodes :
         lerror' = Raise(ClassifyS3Error(k), "list_objects_v2", k, invocations)
    /\ lpc' = "failed"
    /\ UNCHANGED << listCallerFrame, page_i, listed >>

\* a failure that is no ClientError passes the except clause
GenPageOtherError ==
    /\ lpc = "iterating" /\ page_i < Len(bucket_pages)
    /\ list_calls' = list_calls + 1
    /\ lerror' = Raise("EndpointConnectionError", "list_objects_v2", "none", invocations)
    /\ lpc' = "failed"
    /\ UNCHANGED << listCallerFrame, page_i, listed >>

\* the generator is exhausted: list(...) returns
GenExhausted ==
    /\ lpc = "iterating" /\ page_i = Len(bucket_pages)
    /\ lpc' = "done"
    /\ UNCHANGED << listCallerFrame, page_i, listed, list_calls, lerror >>

-----------------------------------------------------------------------------
\* Destination key derivation (transfer_object/handler.py and
\* validate_transfer/handler.py).  A key or a prefix is a sequence of
\* characters.

\* every variable of the transfer engine proper
coreVars == << inputVars, decoVars, func, wpc, attempt, last_exception, delay,
               invocations, sleeps, outcome, fpc, fres, mpcVars, s3Vars,
               handlerVars >>

\* str.startswith
StartsWith(s, prefix) ==
    /\ Len(prefix) <= Len(s)
    /\ SubSeq(s, 1, Len(prefix)) = prefix

\* s[n:]
SliceFrom(s, n) == SubSeq(s, n + 1, Len(s))

\* mutant: the slice starts one character after the source prefix
TransferDestKeyOffByOne(key, sprefix, dprefix) ==
    LET relative_key == IF sprefix # << >> /\ StartsWith(key, sprefix)
                        THEN SliceFrom(key, Len(sprefix) + 1)
                        ELSE key
    IN  IF dprefix # << >> THEN dprefix \o relative_key ELSE relative_key

\* transfer_object: relative_key, then dest_key
TransferDestKey(key, sprefix, dprefix) ==
    LET relative_key == IF sprefix # << >> /\ StartsWith(key, sprefix)
                        THEN SliceFrom(key, Len(sprefix))
                        ELSE key
    IN  IF dprefix # << >> THEN dprefix \o relative_key ELSE relative_key

\* mutant: the source prefix is matched but left in place
ValidateDestKeyNoStrip(key, sprefix, dprefix) ==
    IF dprefix # << >> THEN dprefix \o key ELSE key

\* validate_transfer: relative_key, then dest_key, for one sampled object
ValidateDestKey(key, sprefix, dprefix) ==
    LET relative_key == IF sprefix # << >> /\ StartsWith(key, sprefix)
                        THEN SliceFrom(key, Len(sprefix))
                        ELSE key
    IN  IF dprefix # << >> THEN dprefix \o relative_key ELSE relative_key

Handlers == {"transfer_object", "validate_transfer"}

DeriveTransferKey ==
    /\ "transfer_object" \notin derived
    /\ dest_key' = [dest_key EXCEPT !["transfer_object"] =
                       TransferDestKey(source_key, source_prefix, dest_prefix)]
    /\ derived' = derived \cup {"transfer_object"}
    /\ UNCHANGED << coreVars, listVars, storeVars,
                    valVars, stsVars, threadVars, source_key, source_prefix, dest_prefix >>

DeriveValidateKey ==
    /\ "validate_transfer" \notin derived
    /\ dest_key' = [dest_key EXCEPT !["validate_transfer"] =
                       ValidateDestKey(source_key, source_prefix, dest_prefix)]
    /\ derived' = derived \cup {"validate_transfer"}
    /\ UNCHANGED << coreVars, listVars, storeVars,
                    valVars, stsVars, threadVars, source_key, source_prefix, dest_prefix >>

-----------------------------------------------------------------------------
\* validate_transfer/handler.py, with common/s3_client.py: head_object

HEAD_MAX_ATTEMPTS == 5
HEAD_BASE_DELAY == 1
HEAD_MAX_DELAY == 60

\* dest_sizes[i] when the destination holds no object at the key
Missing == -1

NoResult ==
    [status |-> "none", total_expected |-> 0, total_found |-> 0,
     samples_checked |-> 0, samples_passed |-> 0, failures |-> << >>]

NoVError == [cls |-> "None", details |-> NoResult, cause |-> NoExc]

\* raise cls(..., details=...) from cause
VError(c, d, e) == [cls |-> c, details |-> d, cause |-> e]

\* hub_s3.get_object + json.loads; objects = manifest["objects"]
ValReadManifest ==
    /\ vpc = "start"
    /\ \/ /\ vpc' = "assume"
          /\ verror' = verror
       \/ /\ vpc' = "failed"
          /\ verror' = VError("NonRetryableError", NoResult,
                              Raise("Exception", "get_object", "none", 0))
    /\ UNCHANGED << coreVars, listVars, storeVars,
                    keyVars, stsVars, threadVars, valInputVars, pages, dest_count, samples,
                    sample_i, samples_passed, failures, probe_log, head_calls,
                    vresult >>

\* credentials = assume_role(...): outside every try of the handler
ValAssumeRole ==
    /\ vpc = "assume"
    /\ \/ /\ vpc' = "count"
          /\ verror' = verror
       \/ /\ vpc' = "failed"
          /\ \E c \in {"AccessDeniedError", "RetryableError"} :
               verror' = VError(c, NoResult, NoExc)
    /\ UNCHANGED << coreVars, listVars, storeVars,
                    keyVars, stsVars, threadVars, valInputVars, pages, dest_count, samples,
                    sample_i, samples_passed, failures, probe_log, head_calls,
                    vresult >>

\* the KeyCount a page of the destination listing may carry
KeyCounts(total_expected) == {0, total_expected}

\* for page in paginator.paginate(...): dest_count += page.get("KeyCount", 0)
ValCountPage ==
    /\ vpc = "count"
    /\ pages < MaxPages
    /\ pages' = pages + 1
    /\ \E k \in KeyCounts(Len(objects)) : dest_count' = dest_count + k
    /\ UNCHANGED << coreVars, listVars, storeVars,
                    keyVars, stsVars, threadVars, valInputVars, vpc, samples, sample_i,
                    samples_passed, failures, probe_log, head_calls, vresult,
                    verror >>

\* except Exception as e: raise NonRetryableError(...) from e
ValCountFails ==
    /\ vpc = "count"
    /\ pages < MaxPages
    /\ vpc' = "failed"
    /\ verror' = VError("NonRetryableError", NoResult,
                        Raise("Exception", "list_objects_v2", "none", 0))
    /\ UNCHANGED << coreVars, listVars, storeVars,
                    keyVars, stsVars, threadVars, valInputVars, pages, dest_count, samples,
                    sample_i, samples_passed, failures, probe_log, head_calls,
                    vresult >>

\* mutant: every entry of the inventory is sampled
SampleSizeTotal(configured, total_expected) == total_expected

\* sample_size = min(config.validation_sample_size, total_expected)
SampleSize(configured, total_expected) == Min(configured, total_expected)

\* random.sample(population, k): k positions, no position twice, in any order
RandomSample(n, k) ==
    { s \in [1..k -> 1..n] : \A i, j \in 1..k : i # j => s[i] # s[j] }

\* the listing is exhausted; samples = random.sample(objects, sample_size)
\* if objects else []
ValSample ==
    /\ vpc = "count"
    /\ vpc' = "loop"
    /\ LET total_expected == Len(objects)
           sample_size == SampleSize(validation_sample_size, total_expected)
       IN  IF objects # << >>
           THEN samples' \in RandomSample(total_expected, sample_size)
           ELSE samples' = << >>
    /\ UNCHANGED << coreVars, listVars, storeVars,
                    keyVars, stsVars, threadVars, valInputVars, pages, dest_count, sample_i,
                    samples_passed, failures, probe_log, head_calls, vresult,
                    verror >>

\* the object the loop is at, and the key it is probed under
CurrentObject == objects[samples[sample_i + 1]]
CurrentDestKey == ValidateDestKey(CurrentObject.Key, source_prefix, dest_prefix)

\* for obj in samples: ... dest_meta = head_object(dest_s3, dest_bucket, dest_key)
ValProbe ==
    /\ vpc = "loop"
    /\ sample_i < Len(samples)
    /\ StartWrapped("head_object", HEAD_MAX_ATTEMPTS, HEAD_BASE_DELAY, HEAD_MAX_DELAY,
                    {"RetryableError"})
    /\ vpc' = "probing"
    /\ UNCHANGED << inputVars, listVars, storeVars, delay, mpcVars, s3Vars, handlerVars, keyVars,
                    stsVars, threadVars, valInputVars, pages, dest_count, samples, sample_i,
                    samples_passed, failures, probe_log, head_calls, vresult,
                    verror >>

\* ---- common/s3_client.py: head_object, inside the wrapper

headFrame == << inputVars, listVars, storeVars, decoVars, func, wpc, attempt, last_exception, delay,
                invocations, sleeps, outcome, handlerVars, mpcVars,
                next_upload_id, uploads, calls, ncalls, keyVars, stsVars, threadVars, valInputVars,
                vpc, pages, dest_count, samples, sample_i, samples_passed,
                failures, probe_log, vresult, verror >>

\* response = s3_client.head_object(...); return {"ContentLength": ...}
HeadObjectOk ==
    /\ wpc = "running" /\ func = "head_object" /\ fpc = "entry"
    /\ dest_sizes[samples[sample_i + 1]] # Missing
    /\ head_calls' = head_calls + 1
    /\ fres' = Returned(dest_sizes[samples[sample_i + 1]])
    /\ fpc' = "exit"
    /\ UNCHANGED << headFrame, faults >>

\* no object at the key: the store answers 404, a ClientError
HeadObjectNotFound ==
    /\ wpc = "running" /\ func = "head_object" /\ fpc = "entry"
    /\ dest_sizes[samples[sample_i + 1]] = Missing
    /\ head_calls' = head_calls + 1
    /\ fres' = Raised(Raise(ClassifyS3Error("404"), "head_object", "404", invocations))
    /\ fpc' = "exit"
    /\ UNCHANGED << headFrame, faults >>

\* except s3_client.exceptions.ClientError as e: raise _classify_s3_error(e, ...)
\* for a failure of the store itself, whatever the bucket holds; one validation
\* run meets at most one such failure
HeadObjectClientError ==
    /\ wpc = "running" /\ func = "head_object" /\ fpc = "entry"
    /\ faults = 0
    /\ faults' = faults + 1
    /\ head_calls' = head_calls + 1
    /\ \E k \in {"SlowDown", "AccessDenied"} :
         fres' = Raised(Raise(ClassifyS3Error(k), "head_object", k, invocations))
    /\ fpc' = "exit"
    /\ UNCHANGED headFrame

\* a failure that is no ClientError passes the except clause
HeadObjectOtherError ==
    /\ wpc = "running" /\ func = "head_object" /\ fpc = "entry"
    /\ faults = 0
    /\ faults' = faults + 1
    /\ head_calls' = head_calls + 1
    /\ fres' = Raised(Raise("EndpointConnectionError", "head_object", "none", invocations))
    /\ fpc' = "exit"
    /\ UNCHANGED headFrame

\* ---- back in the handler

SizeMismatch(k, expected, actual) ==
    [key |-> k, expected_size |-> expected, actual_size |-> actual,
     reason |-> "size_mismatch", error |-> NoExc]

HeadObjectFailed(k, expected, e) ==
    [key |-> k, expected_size |-> expected, actual_size |-> Missing,
     reason |-> "head_object_failed", error |-> e]

Probed(i, o) == [position |-> i, outcome |-> o]

probeFrame == << inputVars, listVars, storeVars,
                 decoVars, func, wpc, attempt, last_exception, delay,
                 invocations, sleeps, outcome, fpc, fres, mpcVars, s3Vars,
                 handlerVars, keyVars, stsVars, threadVars, valInputVars, pages, dest_count, samples,
                 head_calls, vresult, verror >>

\* mutant: a size mismatch is recorded and counted as passed as well
ValProbeReturnedCountsBoth ==
    /\ vpc = "probing" /\ wpc = "returned"
    /\ LET expected_size == CurrentObject.Size
           actual == outcome.val
       IN  IF actual = expected_size
           THEN /\ samples_passed' = samples_passed + 1
                /\ failures' = failures
                /\ probe_log' = Append(probe_log, Probed(samples[sample_i + 1], "passed"))
           ELSE /\ samples_passed' = samples_passed + 1
                /\ failures' = Append(failures,
                                      SizeMismatch(CurrentDestKey, expected_size, actual))
                /\ probe_log' = Append(probe_log,
                                       Probed(samples[sample_i + 1], "size_mismatch"))
    /\ sample_i' = sample_i + 1
    /\ vpc' = "loop"
    /\ UNCHANGED probeFrame

\* if dest_meta["ContentLength"] == expected_size: ... else: failures.append(...)
ValProbeReturned ==
    /\ vpc = "probing" /\ wpc = "returned"
    /\ LET expected_size == CurrentObject.Size
           actual == outcome.val
       IN  IF actual = expected_size
           THEN /\ samples_passed' = samples_passed + 1
                /\ failures' = failures
                /\ probe_log' = Append(probe_log, Probed(samples[sample_i + 1], "passed"))
           ELSE /\ samples_passed' = samples_passed
                /\ failures' = Append(failures,
                                      SizeMismatch(CurrentDestKey, expected_size, actual))
                /\ probe_log' = Append(probe_log,
                                       Probed(samples[sample_i + 1], "size_mismatch"))
    /\ sample_i' = sample_i + 1
    /\ vpc' = "loop"
    /\ UNCHANGED probeFrame

\* mutant: the error of a probe ends the handler
ValProbeFailedAborts ==
    /\ vpc = "probing" /\ wpc = "raised"
    /\ vpc' = "failed"
    /\ verror' = VError(outcome.exc.cls, NoResult, outcome.exc)
    /\ UNCHANGED << inputVars, listVars, storeVars,
                    decoVars, func, wpc, attempt, last_exception, delay,
                    invocations, sleeps, outcome, fpc, fres, mpcVars, s3Vars,
                    handlerVars, keyVars, stsVars, threadVars, valInputVars, pages, dest_count, samples,
                    head_calls, vresult, sample_i, samples_passed, failures,
                    probe_log >>

\* mutant: a probe that raised counts as a passed sample
ValProbeFailedPasses ==
    /\ vpc = "probing" /\ wpc = "raised"
    /\ failures' = failures
    /\ probe_log' = Append(probe_log, Probed(samples[sample_i + 1], "passed"))
    /\ samples_passed' = samples_passed + 1
    /\ sample_i' = sample_i + 1
    /\ vpc' = "loop"
    /\ UNCHANGED probeFrame

\* except Exception as e: failures.append(...)
ValProbeFailed ==
    /\ vpc = "probing" /\ wpc = "raised"
    /\ failures' = Append(failures,
                          HeadObjectFailed(CurrentDestKey, CurrentObject.Size, outcome.exc))
    /\ probe_log' = Append(probe_log, Probed(samples[sample_i + 1], "head_object_failed"))
    /\ samples_passed' = samples_passed
    /\ sample_i' = sample_i + 1
    /\ vpc' = "loop"
    /\ UNCHANGED probeFrame

\* mutant: the count has to exceed the expectation
VerdictStrict(found, expected, fails) ==
    IF found > expected /\ fails = << >> THEN "PASSED" ELSE "FAILED"

\* status = "PASSED" if (dest_count >= total_expected and not failures) else "FAILED"
Verdict(found, expected, fails) ==
    IF found >= expected /\ fails = << >> THEN "PASSED" ELSE "FAILED"

Result ==
    [status |-> Verdict(dest_count, Len(objects), failures),
     total_expected |-> Len(objects),
     total_found |-> dest_count,
     samples_checked |-> SampleSize(validation_sample_size, Len(objects)),
     samples_passed |-> samples_passed,
     failures |-> failures]

\* mutant: a failed validation is returned like a passed one
MustRaiseNever(status) == FALSE

\* if status == "FAILED"
MustRaise(status) == status = "FAILED"

verdictFrame == << coreVars, listVars, storeVars,
                   keyVars, stsVars, threadVars, valInputVars, pages, dest_count, samples,
                   sample_i, samples_passed, failures, probe_log, head_calls >>

\* the loop is over: result; raise ValidationError(..., details=result)
ValRaise ==
    /\ vpc = "loop"
    /\ sample_i = Len(samples)
    /\ MustRaise(Result.status)
    /\ vresult' = Result
    /\ verror' = VError("ValidationError", Result, NoExc)
    /\ vpc' = "failed"
    /\ UNCHANGED verdictFrame

\* the loop is over: result; return result
ValReturn ==
    /\ vpc = "loop"
    /\ sample_i = Len(samples)
    /\ ~MustRaise(Result.status)
    /\ vresult' = Result
    /\ verror' = verror
    /\ vpc' = "done"
    /\ UNCHANGED verdictFrame

-----------------------------------------------------------------------------
\* common/sts_client.py: the credential cache and assume_role

CREDENTIAL_BUFFER_SECONDS == 300
STS_MAX_ATTEMPTS == 3
STS_BASE_DELAY == 1
STS_MAX_DELAY == 10

Roles == {"role_a", "role_b"}

\* credentials = {"aws_access_key_id": ..., "aws_secret_access_key": ...,
\* "aws_session_token": ...} of the r-th response of the remote service
Credentials(r) ==
    [aws_access_key_id |-> r, aws_secret_access_key |-> r, aws_session_token |-> r]

\* {"credentials": credentials, "expiry": raw_creds["Expiration"].timestamp()}
Entry(creds, expiry) == [credentials |-> creds, expiry |-> expiry]

\* role_arn not in _credential_cache
NoEntry == Entry(Credentials(0), 0)

\* mutant: an entry already there is updated field by field, credentials first
StoreEntryInPlace(cache, role, entry) ==
    [cache EXCEPT ![role] = IF @ = NoEntry
                            THEN entry
                            ELSE Entry(entry.credentials, @.expiry)]

\* _credential_cache[role_arn] = {...}: one assignment of the finished dict
StoreEntry(cache, role, entry) == [cache EXCEPT ![role] = entry]

\* mutant: the entry counts as valid up to its expiry
IsCachedCredentialValidNoBuffer(cache, role, t) ==
    IF cache[role] = NoEntry
    THEN FALSE
    ELSE t < cache[role].expiry

\* mutant: an entry is valid only for the external id it was issued for
IsCachedCredentialValidSameExternalId(cache, role, t) ==
    IF cache[role] = NoEntry
    THEN FALSE
    ELSE /\ t < (cache[role].expiry - CREDENTIAL_BUFFER_SECONDS)
         /\ granted[role] = call_args.external_id

\* _is_cached_credential_valid, at time t
IsCachedCredentialValid(cache, role, t) ==
    IF cache[role] = NoEntry
    THEN FALSE
    ELSE t < (cache[role].expiry - CREDENTIAL_BUFFER_SECONDS)

StsErrorCodes == {"AccessDenied", "AccessDeniedException", "Throttling"}

\* mutant: only the code AccessDenied is a denial
ClassifyStsErrorOneCode(error_code) ==
    IF error_code \in {"AccessDenied"}
    THEN "AccessDeniedError"
    ELSE "RetryableError"

\* except sts_client.exceptions.ClientError: AccessDeniedError or RetryableError
ClassifyStsError(error_code) ==
    IF error_code \in {"AccessDenied", "AccessDeniedException"}
    THEN "AccessDeniedError"
    ELSE "RetryableError"

\* the clock advances in steps of half the refresh buffer
ClockStep == CREDENTIAL_BUFFER_SECONDS \div 2
MaxTime == MaxTicks * ClockStep
\* raw_creds["Expiration"] lies this far after the call: the buffer itself
\* (never valid), and one and two steps of the clock more
Lifetimes == { CREDENTIAL_BUFFER_SECONDS + k * ClockStep : k \in 0..2 }

\* time passes between acquisitions and between the attempts of one (the
\* wrapper's sleep); assume_role reads the clock once, on entry
Tick ==
    /\ spc \in {"idle", "threads"} \/ (spc = "acquiring" /\ wpc = "call")
    /\ now < MaxTime
    /\ now' = now + ClockStep
    /\ UNCHANGED << coreVars, listVars, storeVars, keyVars, valVars, threadVars, credential_cache,
                    role_arn, spc, sts_calls, next_cred, issued, inv, history, argVars >>

NoCheck == [at |-> 0, prior |-> NoEntry, remote |-> FALSE]
Check(t, prior, remote) == [at |-> t, prior |-> prior, remote |-> remote]

\* session_name="S3TransferSession", external_id="", duration_seconds=3600
DefaultArgs ==
    [session_name |-> "S3TransferSession", external_id |-> "",
     duration_seconds |-> 3600]

\* the arguments callers pass besides the role: the defaults, and each
\* argument in turn with another value
CallArgs ==
    { DefaultArgs,
      [DefaultArgs EXCEPT !.session_name = "Validate-1"],
      [DefaultArgs EXCEPT !.external_id = "ext-1"],
      [DefaultArgs EXCEPT !.duration_seconds = 900] }

\* if external_id: kwargs["ExternalId"] = external_id
ExternalIdSent(args) == args.external_id

\* a caller acquires credentials for a role: assume_role(role_arn)
Acquire ==
    /\ spc = "idle"
    /\ Len(history) < MaxAcquires
    /\ \E r \in Roles : role_arn' = r
    /\ call_args' = DefaultArgs
    /\ StartWrapped("assume_role", STS_MAX_ATTEMPTS, STS_BASE_DELAY, STS_MAX_DELAY,
                    {"RetryableError"})
    /\ spc' = "acquiring"
    /\ sts_calls' = 0
    /\ inv' = NoCheck
    /\ UNCHANGED << inputVars, listVars, storeVars,
                    delay, mpcVars, s3Vars, handlerVars, keyVars, valVars,
                    threadVars, credential_cache, now, next_cred, issued, history,
                    granted, cleared >>

\* a caller acquires credentials for a role:
\* assume_role(role_arn, session_name, external_id, duration_seconds)
AcquireWith ==
    /\ spc = "idle"
    /\ Len(history) < MaxAcquires
    /\ \E r \in Roles : role_arn' = r
    /\ \E a \in CallArgs : call_args' = a
    /\ StartWrapped("assume_role", STS_MAX_ATTEMPTS, STS_BASE_DELAY, STS_MAX_DELAY,
                    {"RetryableError"})
    /\ spc' = "acquiring"
    /\ sts_calls' = 0
    /\ inv' = NoCheck
    /\ UNCHANGED << inputVars, listVars, storeVars,
                    delay, mpcVars, s3Vars, handlerVars, keyVars, valVars,
                    threadVars, credential_cache, now, next_cred, issued, history,
                    granted, cleared >>

\* mutant: only the entries inside their expiry buffer are removed
ClearCredentialCacheExpiredOnly ==
    /\ spc = "idle"
    /\ credential_cache' = [r \in Roles |->
                               IF IsCachedCredentialValid(credential_cache, r, now)
                               THEN credential_cache[r] ELSE NoEntry]
    /\ cleared' = Roles
    /\ UNCHANGED << coreVars, listVars, storeVars, keyVars, valVars, threadVars,
                    now, role_arn, spc, sts_calls, next_cred, issued, inv, history,
                    call_args, granted >>

\* clear_credential_cache(): _credential_cache.clear()
ClearCredentialCache ==
    /\ spc = "idle"
    /\ credential_cache' = [r \in Roles |-> NoEntry]
    /\ cleared' = Roles
    /\ UNCHANGED << coreVars, listVars, storeVars, keyVars, valVars, threadVars,
                    now, role_arn, spc, sts_calls, next_cred, issued, inv, history,
                    call_args, granted >>

stsBodyFrame == << inputVars, listVars, storeVars,
                   decoVars, func, wpc, attempt, last_exception, delay,
                   invocations, sleeps, outcome, mpcVars, s3Vars, handlerVars,
                   keyVars, valVars, threadVars, now, role_arn, spc, history,
                   call_args >>

\* if _is_cached_credential_valid(role_arn): return the cached credentials
AssumeRoleCached ==
    /\ wpc = "running" /\ func = "assume_role" /\ fpc = "entry"
    /\ IsCachedCredentialValid(credential_cache, role_arn, now)
    /\ inv' = Check(now, issued[role_arn], FALSE)
    /\ fres' = Returned(credential_cache[role_arn].credentials.aws_access_key_id)
    /\ fpc' = "exit"
    /\ UNCHANGED << stsBodyFrame, credential_cache, sts_calls, next_cred, issued,
                    granted, cleared >>

\* response = sts_client.assume_role(**kwargs); the entry is stored; return
AssumeRoleRemoteOk ==
    /\ wpc = "running" /\ func = "assume_role" /\ fpc = "entry"
    /\ ~IsCachedCredentialValid(credential_cache, role_arn, now)
    /\ inv' = Check(now, issued[role_arn], TRUE)
    /\ sts_calls' = sts_calls + 1
    /\ next_cred' = next_cred + 1
    /\ \E life \in Lifetimes :
         /\ credential_cache' = StoreEntry(credential_cache, role_arn,
                                           Entry(Credentials(next_cred + 1), now + life))
         /\ issued' = [issued EXCEPT ![role_arn] =
                          Entry(Credentials(next_cred + 1), now + life)]
    /\ granted' = [granted EXCEPT ![role_arn] = ExternalIdSent(call_args)]
    /\ cleared' = cleared \ {role_arn}
    /\ fres' = Returned(next_cred + 1)
    /\ fpc' = "exit"
    /\ UNCHANGED stsBodyFrame

\* mutant: the except clause drops the entry of the role that failed
AssumeRoleClientErrorEvicts ==
    /\ wpc = "running" /\ func = "assume_role" /\ fpc = "entry"
    /\ ~IsCachedCredentialValid(credential_cache, role_arn, now)
    /\ inv' = Check(now, issued[role_arn], TRUE)
    /\ sts_calls' = sts_calls + 1
    /\ \E k \in StsErrorCodes :
         fres' = Raised(Raise(ClassifyStsError(k), "assume_role", k, invocations))
    /\ credential_cache' = StoreEntry(credential_cache, role_arn, NoEntry)
    /\ fpc' = "exit"
    /\ UNCHANGED << stsBodyFrame, next_cred, issued, granted, cleared >>

\* except sts_client.exceptions.ClientError as e
AssumeRoleClientError ==
    /\ wpc = "running" /\ func = "assume_role" /\ fpc = "entry"
    /\ ~IsCachedCredentialValid(credential_cache, role_arn, now)
    /\ inv' = Check(now, issued[role_arn], TRUE)
    /\ sts_calls' = sts_calls + 1
    /\ \E k \in StsErrorCodes :
         fres' = Raised(Raise(ClassifyStsError(k), "assume_role", k, invocations))
    /\ fpc' = "exit"
    /\ UNCHANGED << stsBodyFrame, credential_cache, next_cred, issued, granted,
                    cleared >>

\* the remote call fails with no service response (no connection): not a
\* ClientError, so no except clause of assume_role catches it
AssumeRoleOtherError ==
    /\ wpc = "running" /\ func = "assume_role" /\ fpc = "entry"
    /\ ~IsCachedCredentialValid(credential_cache, role_arn, now)
    /\ inv' = Check(now, issued[role_arn], TRUE)
    /\ sts_calls' = sts_calls + 1
    /\ fres' = Raised(Raise("EndpointConnectionError", "assume_role", "none",
                            invocations))
    /\ fpc' = "exit"
    /\ UNCHANGED << stsBodyFrame, credential_cache, next_cred, issued, granted,
                    cleared >>

Acquired(role, ok, t, creds, expiry, n) ==
    [role |-> role, ok |-> ok, at |-> t, credentials |-> creds,
     expiry |-> expiry, calls |-> n]

acquireFrame == << coreVars, listVars, storeVars,
                   keyVars, valVars, threadVars, credential_cache, now, role_arn,
                   sts_calls, next_cred, issued, inv, argVars >>

\* assume_role returned to its caller
AcquireReturned ==
    /\ spc = "acquiring" /\ wpc = "returned"
    /\ history' = Append(history,
                         Acquired(role_arn, TRUE, inv.at, Credentials(outcome.val),
                                  credential_cache[role_arn].expiry, sts_calls))
    /\ spc' = "idle"
    /\ UNCHANGED acquireFrame

\* assume_role raised to its caller, which holds no credentials
AcquireRaised ==
    /\ spc = "acquiring" /\ wpc = "raised"
    /\ history' = Append(history, Acquired(role_arn, FALSE, 0, Credentials(0), 0, 0))
    /\ spc' = "idle"
    /\ UNCHANGED acquireFrame

\* ---- several threads of one process in assume_role for the same role

Threads == 1..MaxThreads

threadFrame == << coreVars, listVars, storeVars,
                  keyVars, valVars, role_arn, spc, sts_calls, issued, inv,
                  history, now, argVars >>

\* a thread calls assume_role(role_arn)
TStart(t) ==
    /\ spc = "threads"
    /\ tpc[t] = "idle"
    /\ tpc' = [tpc EXCEPT ![t] = "check"]
    /\ tattempt' = [tattempt EXCEPT ![t] = 0]
    /\ UNCHANGED << threadFrame, credential_cache, next_cred, tresp, tret, responses,
                    stored >>

\* if _is_cached_credential_valid(role_arn)
TCheck(t) ==
    /\ tpc[t] = "check"
    /\ tpc' = [tpc EXCEPT ![t] =
                 IF IsCachedCredentialValid(credential_cache, role_arn, now)
                 THEN "read" ELSE "remote"]
    /\ UNCHANGED << threadFrame, credential_cache, next_cred, tattempt, tresp, tret,
                    responses, stored >>

\* return _credential_cache[role_arn]["credentials"]
TReadCached(t) ==
    /\ tpc[t] = "read"
    /\ tret' = [tret EXCEPT ![t] = Returned(credential_cache[role_arn].credentials)]
    /\ tpc' = [tpc EXCEPT ![t] = "done"]
    /\ UNCHANGED << threadFrame, credential_cache, next_cred, tattempt, tresp,
                    responses, stored >>

\* response = sts_client.assume_role(**kwargs); credentials = {...}
TRemoteOk(t) ==
    /\ tpc[t] = "remote"
    /\ next_cred' = next_cred + 1
    /\ \E life \in Lifetimes :
         LET e == Entry(Credentials(next_cred + 1), now + life)
         IN  /\ tresp' = [tresp EXCEPT ![t] = e]
             /\ responses' = responses \cup {e}
    /\ tpc' = [tpc EXCEPT ![t] = "store"]
    /\ UNCHANGED << threadFrame, credential_cache, tattempt, tret, stored >>

\* _credential_cache[role_arn] = {...}; return credentials
TStore(t) ==
    /\ tpc[t] = "store"
    /\ credential_cache' = StoreEntry(credential_cache, role_arn, tresp[t])
    /\ stored' = Append(stored, tresp[t])
    /\ tret' = [tret EXCEPT ![t] = Returned(tresp[t].credentials)]
    /\ tpc' = [tpc EXCEPT ![t] = "done"]
    /\ UNCHANGED << threadFrame, next_cred, tattempt, tresp, responses >>

\* no remote call of any thread has failed so far: the threads meet at most
\* one failure of the remote service between them
NoFailureYet == \A u \in Threads : tattempt[u] = 0 /\ tpc[u] # "failed"

\* the remote call raises ClientError: AccessDeniedError ends the call, and
\* RetryableError ends it on the last attempt of the wrapper; otherwise the
\* wrapper sleeps and invokes assume_role again
TRemoteClientError(t) ==
    /\ tpc[t] = "remote"
    /\ NoFailureYet
    /\ \E k \in StsErrorCodes :
         LET e == Raise(ClassifyStsError(k), "assume_role", k, tattempt[t] + 1)
         IN  IF /\ IsRetryable(e, {"RetryableError"})
                /\ ~IsLastAttempt(tattempt[t], STS_MAX_ATTEMPTS)
             THEN /\ tattempt' = [tattempt EXCEPT ![t] = @ + 1]
                  /\ tpc' = [tpc EXCEPT ![t] = "check"]
                  /\ tret' = tret
             ELSE /\ tattempt' = tattempt
                  /\ tpc' = [tpc EXCEPT ![t] = "failed"]
                  /\ tret' = [tret EXCEPT ![t] = Raised(e)]
    /\ UNCHANGED << threadFrame, credential_cache, next_cred, tresp, responses,
                    stored >>

\* the remote call raises something that is no ClientError
TRemoteOtherError(t) ==
    /\ tpc[t] = "remote"
    /\ NoFailureYet
    /\ tpc' = [tpc EXCEPT ![t] = "failed"]
    /\ tret' = [tret EXCEPT ![t] =
                  Raised(Raise("EndpointConnectionError", "assume_role", "none",
                               tattempt[t] + 1))]
    /\ UNCHANGED << threadFrame, credential_cache, next_cred, tattempt, tresp,
                    responses, stored >>

-----------------------------------------------------------------------------
\* Specifications

Sizes == 0..(MAX_OBJECT_SIZE + 1)
PartSizes == 0..MaxPartSize
Thresholds == {0, 2, MAX_OBJECT_SIZE + 2}

InitRest ==
    /\ delay = 0
    /\ fpc = "idle"
    /\ fres = NoRes
    /\ upload_id = 0
    /\ num_parts = 0
    /\ part_num = 0
    /\ parts = << >>
    /\ exc = NoExc
    /\ next_upload_id = 1
    /\ uploads = << >>
    /\ calls = << >>
    /\ ncalls = [o \in Ops |-> 0]
    /\ faults = 0
    /\ paths = [f \in {"copy_object", "multipart_copy"} |-> 0]
    /\ herror = NoExc
    /\ attempt = 0
    /\ last_exception = NoExc
    /\ invocations = 0
    /\ sleeps = 0
    /\ outcome = NoRes

\* no key derivation in progress
InitKeysIdle ==
    /\ source_key = << >>
    /\ source_prefix = << >>
    /\ dest_prefix = << >>
    /\ dest_key = [h \in Handlers |-> << >>]
    /\ derived = {}

\* no validation in progress
InitValRest ==
    /\ pages = 0
    /\ dest_count = 0
    /\ samples = << >>
    /\ sample_i = 0
    /\ samples_passed = 0
    /\ failures = << >>
    /\ probe_log = << >>
    /\ head_calls = 0
    /\ vresult = NoResult
    /\ verror = NoVError

InitValIdle ==
    /\ objects = << >>
    /\ dest_sizes = << >>
    /\ validation_sample_size = 0
    /\ vpc = "none"
    /\ InitValRest

\* a fresh process: the cache is empty
InitStsRest ==
    /\ credential_cache = [r \in Roles |-> NoEntry]
    /\ now = 0
    /\ role_arn = "none"
    /\ sts_calls = 0
    /\ next_cred = 0
    /\ issued = [r \in Roles |-> NoEntry]
    /\ inv = NoCheck
    /\ history = << >>
    /\ call_args = DefaultArgs
    /\ granted = [r \in Roles |-> "none"]
    /\ cleared = {}

\* no thread is in assume_role
InitThreadsIdle ==
    /\ tpc = [t \in Threads |-> "idle"]
    /\ tattempt = [t \in Threads |-> 0]
    /\ tresp = [t \in Threads |-> NoEntry]
    /\ tret = [t \in Threads |-> NoRes]
    /\ responses = {}
    /\ stored = << >>

InitStsIdle ==
    /\ spc = "none"
    /\ InitStsRest
    /\ InitThreadsIdle

\* no listing in progress
InitListIdle ==
    /\ lpc = "none"
    /\ bucket_pages = << >>
    /\ page_i = 0
    /\ listed = 0
    /\ list_calls = 0
    /\ lerror = NoExc

\* the destination bucket before the transfer: nothing under the task's key
InitStore ==
    /\ dest_objects = [k \in StoreKeys |-> IF k = OtherKey THEN OtherObject ELSE NoObject]
    /\ receipts = << >>

InitOuterIdle ==
    /\ InitKeysIdle
    /\ InitValIdle
    /\ InitStsIdle
    /\ InitListIdle
    /\ InitStore

\* one transfer task handed to the handler
Init ==
    /\ object_size \in Sizes
    /\ part_size \in PartSizes
    /\ multipart_threshold_bytes \in Thresholds
    /\ IF part_size = 0 \/ object_size > MAX_OBJECT_SIZE
       THEN TRUE
       ELSE NumParts(object_size, part_size) <= MaxParts
    /\ max_attempts = S3_MAX_ATTEMPTS
    /\ base_delay = S3_BASE_DELAY
    /\ max_delay = S3_MAX_DELAY
    /\ retryable_exceptions = {"RetryableError"}
    /\ func = "none"
    /\ wpc = "idle"
    /\ hpc = "start"
    /\ InitRest
    /\ InitOuterIdle

WrapperNext ==
    \/ WrapperInvoke
    \/ WrapperReturn
    \/ WrapperExhausted
    \/ WrapperBackoff
    \/ WrapperNonRetryable
    \/ WrapperUncaught

Next ==
    \/ HandlerAssumeRole
    \/ HandlerCopyObject
    \/ HandlerMultipartCopy
    \/ HandlerFails
    \/ HandlerSucceeds
    \/ WrapperNext
    \/ CopyObjectOk
    \/ CopyObjectClientError
    \/ CopyObjectOtherError
    \/ MpcGuard
    \/ MpcCreateOk
    \/ MpcCreateFails
    \/ MpcPartOk
    \/ MpcPartFails
    \/ MpcCompleteOk
    \/ MpcCompleteFails
    \/ MpcAbortOk
    \/ MpcAbortFails
    \/ MpcReraise

Spec == Init /\ [][Next]_vars

\* the wrapper around a generic operation, for every decorator argument
RetryableSets == { {"RetryableError"}, {"ValueError"}, {"TransferError"} }

InitRetry ==
    /\ object_size = 0
    /\ part_size = 0
    /\ multipart_threshold_bytes = 0
    /\ max_attempts \in 1..MaxAttempts
    /\ base_delay \in 1..MaxBaseDelay
    /\ max_delay \in 1..MaxMaxDelay
    /\ retryable_exceptions \in RetryableSets
    /\ func = "op"
    /\ wpc = "call"
    /\ hpc = "none"
    /\ InitRest
    /\ InitOuterIdle

NextRetry ==
    \/ WrapperNext
    \/ OpReturns
    \/ OpRaisesError

SpecRetry == InitRetry /\ [][NextRetry]_vars

\* the transfer engine at rest, for the specifications of the other components
InitCoreIdle ==
    /\ object_size = 0
    /\ part_size = 0
    /\ multipart_threshold_bytes = 0
    /\ max_attempts = S3_MAX_ATTEMPTS
    /\ base_delay = S3_BASE_DELAY
    /\ max_delay = S3_MAX_DELAY
    /\ retryable_exceptions = {"RetryableError"}
    /\ func = "none"
    /\ wpc = "idle"
    /\ hpc = "none"
    /\ InitRest

\* the key derivation of both handlers, for every key and pair of prefixes
SeqsUpTo(S, n) == UNION { [1..k -> S] : k \in 0..n }
KeyChars == {"a", "/"}
Keys == SeqsUpTo(KeyChars, MaxKeyLen)
Prefixes == SeqsUpTo(KeyChars, MaxPrefixLen)

InitKeys ==
    /\ InitCoreIdle
    /\ InitListIdle
    /\ InitStore
    /\ InitValIdle
    /\ InitStsIdle
    /\ source_key \in Keys
    /\ source_prefix \in Prefixes
    /\ dest_prefix \in Prefixes
    /\ dest_key = [h \in Handlers |-> << >>]
    /\ derived = {}

NextKeys ==
    \/ DeriveTransferKey
    \/ DeriveValidateKey

SpecKeys == InitKeys /\ [][NextKeys]_vars

\* one validation run, for every inventory, destination bucket and sample size
InventoryKey(i) == [j \in 1..i |-> IF j = i THEN "a" ELSE "/"]
Inventory(n) == [i \in 1..n |-> [Key |-> InventoryKey(i), Size |-> i]]
\* per entry: nothing at the key, the expected size, another size
Destinations(n) == [1..n -> {Missing, 0, 1}]
DestSizes(n, d) == [i \in 1..n |-> IF d[i] = Missing THEN Missing ELSE i + d[i]]

InitValidate ==
    /\ InitCoreIdle
    /\ InitListIdle
    /\ InitStore
    /\ InitStsIdle
    /\ source_key = << >>
    /\ source_prefix = << "a" >>
    /\ dest_prefix = << "/" >>
    /\ dest_key = [h \in Handlers |-> << >>]
    /\ derived = {}
    /\ \E n \in 0..MaxInventory :
         /\ objects = Inventory(n)
         /\ \E d \in Destinations(n) : dest_sizes = DestSizes(n, d)
    /\ validation_sample_size \in 0..(MaxInventory + 1)
    /\ vpc = "start"
    /\ InitValRest

NextValidate ==
    \/ ValReadManifest
    \/ ValAssumeRole
    \/ ValCountPage
    \/ ValCountFails
    \/ ValSample
    \/ ValProbe
    \/ WrapperNext
    \/ HeadObjectOk
    \/ HeadObjectNotFound
    \/ HeadObjectClientError
    \/ HeadObjectOtherError
    \/ ValProbeReturned
    \/ ValProbeFailed
    \/ ValRaise
    \/ ValReturn

SpecValidate == InitValidate /\ [][NextValidate]_vars

\* one process acquiring credentials, one acquisition after the other
InitSts ==
    /\ InitCoreIdle
    /\ InitListIdle
    /\ InitStore
    /\ InitKeysIdle
    /\ InitValIdle
    /\ spc = "idle"
    /\ InitStsRest
    /\ InitThreadsIdle

NextSts ==
    \/ Tick
    \/ Acquire
    \/ WrapperNext
    \/ AssumeRoleCached
    \/ AssumeRoleRemoteOk
    \/ AssumeRoleClientError
    \/ AssumeRoleOtherError
    \/ AcquireReturned
    \/ AcquireRaised

SpecSts == InitSts /\ [][NextSts]_vars

\* one process acquiring credentials and clearing the cache in between; the
\* clock starts one step before its end
InitCache ==
    /\ InitCoreIdle
    /\ InitListIdle
    /\ InitStore
    /\ InitKeysIdle
    /\ InitValIdle
    /\ spc = "idle"
    /\ credential_cache = [r \in Roles |-> NoEntry]
    /\ now = MaxTime - ClockStep
    /\ role_arn = "none"
    /\ sts_calls = 0
    /\ next_cred = 0
    /\ issued = [r \in Roles |-> NoEntry]
    /\ inv = NoCheck
    /\ history = << >>
    /\ call_args = DefaultArgs
    /\ granted = [r \in Roles |-> "none"]
    /\ cleared = {}
    /\ InitThreadsIdle

NextCache ==
    \/ Tick
    \/ Acquire
    \/ ClearCredentialCache
    \/ WrapperNext
    \/ AssumeRoleCached
    \/ AssumeRoleRemoteOk
    \/ AssumeRoleClientError
    \/ AssumeRoleOtherError
    \/ AcquireReturned
    \/ AcquireRaised

SpecCache == InitCache /\ [][NextCache]_vars

\* one process acquiring credentials with the arguments of its callers
NextArgs ==
    \/ Tick
    \/ AcquireWith
    \/ WrapperNext
    \/ AssumeRoleCached
    \/ AssumeRoleRemoteOk
    \/ AssumeRoleClientError
    \/ AssumeRoleOtherError
    \/ AcquireReturned
    \/ AcquireRaised

SpecArgs == InitCache /\ [][NextArgs]_vars

\* the threads of one process acquiring credentials for one role at once
InitThreads ==
    /\ InitCoreIdle
    /\ InitListIdle
    /\ InitStore
    /\ InitKeysIdle
    /\ InitValIdle
    /\ spc = "threads"
    /\ credential_cache = [r \in Roles |-> NoEntry]
    /\ now = 0
    /\ role_arn \in Roles
    /\ sts_calls = 0
    /\ next_cred = 0
    /\ issued = [r \in Roles |-> NoEntry]
    /\ inv = NoCheck
    /\ history = << >>
    /\ call_args = DefaultArgs
    /\ granted = [r \in Roles |-> "none"]
    /\ cleared = {}
    /\ InitThreadsIdle

NextThreads ==
    \/ Tick
    \/ \E t \in Threads :
         \/ TStart(t)
         \/ TCheck(t)
         \/ TReadCached(t)
         \/ TRemoteOk(t)
         \/ TStore(t)
         \/ TRemoteClientError(t)
         \/ TRemoteOtherError(t)

SpecThreads == InitThreads /\ [][NextThreads]_vars

\* list(list_objects_paginated(...)), for every listing of the bucket
PageSeqs == UNION { [1..n -> 0..MaxPageObjects] : n \in 1..MaxListPages }

InitList ==
    /\ InitCoreIdle
    /\ InitKeysIdle
    /\ InitValIdle
    /\ InitStsIdle
    /\ InitStore
    /\ lpc = "start"
    /\ bucket_pages \in PageSeqs
    /\ page_i = 0
    /\ listed = 0
    /\ list_calls = 0
    /\ lerror = NoExc

NextList ==
    \/ ListCall
    \/ WrapperInvoke
    \/ ListReturnsGenerator
    \/ WrapperReturn
    \/ ListIterate
    \/ GenPage
    \/ GenPageClientError
    \/ GenPageOtherError
    \/ GenExhausted

SpecList == InitList /\ [][NextList]_vars

\* one transfer task handed to the handler more than once
\* size, part size, threshold
RerunTasks == { << 1, 1, 2 >>, << 2, 1, 2 >>, << 3, 2, 2 >>, << 2, 0, 2 >>,
                << MAX_OBJECT_SIZE + 1, 1, 2 >> }

InitRerun ==
    /\ \E t \in RerunTasks :
         /\ object_size = t[1]
         /\ part_size = t[2]
         /\ multipart_threshold_bytes = t[3]
    /\ max_attempts = S3_MAX_ATTEMPTS
    /\ base_delay = S3_BASE_DELAY
    /\ max_delay = S3_MAX_DELAY
    /\ retryable_exceptions = {"RetryableError"}
    /\ func = "none"
    /\ wpc = "idle"
    /\ hpc = "start"
    /\ InitRest
    /\ InitOuterIdle

NextRerun ==
    \/ Next
    \/ HandlerReinvoke

SpecRerun == InitRerun /\ [][NextRerun]_vars

\* the wrapper under the assumption that every invocation and sleep ends
SpecRetryFair == InitRetry /\ [][NextRetry]_vars /\ WF_vars(NextRetry)

-----------------------------------------------------------------------------
\* Properties

Create == "create_multipart_upload"
PartCopy == "upload_part_copy"
Complete == "complete_multipart_upload"
Abort == "abort_multipart_upload"

InMultipart == func = "multipart_copy"
BodyRaised == fpc = "exit" /\ fres.kind = "exc"
LastCallIs(o) == Len(calls) >= 1 /\ calls[Len(calls)].op = o
PartCalls == SelectSeq(calls, LAMBDA c : c.op = PartCopy)
CompleteIssued == \E i \in 1..Len(calls) : calls[i].op = Complete

\* ceil(size / psize) as the least q with q * psize >= size, for psize >= 1
CeilOf(size, psize) ==
    CHOOSE q \in 0..size : q * psize >= size /\ \A r \in 0..(q - 1) : r * psize < size

\* C1: in multipart_copy, when an exception has occurred after the upload id
\* was assigned (in a part copy, in the completion, retryable or not), the
\* abort_multipart_upload call for that upload id has been issued, as the last
\* remote call of the invocation, by the time the error leaves the function.
C1_AbortBeforeErrorPropagates ==
    (InMultipart /\ BodyRaised /\ upload_id # 0)
        => /\ Len(calls) >= 2
           /\ calls[1].op = Create /\ calls[1].ok /\ calls[1].upload = upload_id
           /\ calls[Len(calls)].op = Abort
           /\ calls[Len(calls)].upload = upload_id
           /\ \A i \in 1..(Len(calls) - 1) : calls[i].op # Abort

C1_Witness ==
    /\ InMultipart /\ BodyRaised
    /\ fres.exc.cls = "NonRetryableError"
    /\ fres.exc.op = Complete
    /\ LastCallIs(Abort)
    /\ wpc = "raised"

\* C2: with max_attempts = N >= 1, a run in which every attempt fails with a
\* retryable error ends with the error raised after exactly N invocations and
\* N - 1 sleeps; the wrapper never sleeps N times nor invokes more than N times.
C2_ExhaustionCounts ==
    /\ invocations <= max_attempts
    /\ sleeps < max_attempts
    /\ (wpc = "raised" /\ IsInstance(outcome.exc, retryable_exceptions))
         => /\ invocations = max_attempts
            /\ sleeps = max_attempts - 1
            /\ outcome.exc.at = max_attempts

C2_Witness ==
    /\ wpc = "raised"
    /\ outcome.exc.cls = "RetryableError"
    /\ retryable_exceptions = {"RetryableError"}
    /\ max_attempts = 3 /\ invocations = 3 /\ sleeps = 2

DefaultRetryable == retryable_exceptions = {"RetryableError"}

\* C3: under the default retryable set, when an attempt fails with a
\* NonRetryableError (or a subtype), the wrapper's next step raises that same
\* error with no further invocation and no sleep; for a failure of the first
\* attempt that is 1 invocation and 0 sleeps, whatever max_attempts is.
C3_NonRetryableAtOnce ==
    [][ ( /\ DefaultRetryable
          /\ wpc = "running" /\ fpc = "exit" /\ fres.kind = "exc"
          /\ IsSubclass(fres.exc.cls, "NonRetryableError") )
        => ( /\ wpc' = "raised"
             /\ outcome' = fres
             /\ invocations' = invocations
             /\ sleeps' = sleeps
             /\ (fres.exc.at = 1 => invocations' = 1 /\ sleeps' = 0) ) ]_vars

C3_Witness ==
    /\ DefaultRetryable
    /\ max_attempts = 3
    /\ wpc = "raised"
    /\ outcome.exc.cls = "AccessDeniedError"
    /\ outcome.exc.at = 1
    /\ invocations = 1 /\ sleeps = 0

\* C4: when the wrapper has returned, it returned the result of the last
\* invocation, attempt k = invocations <= max_attempts, after k - 1 sleeps:
\* nothing was invoked and nothing slept after the successful attempt.
C4_SuccessCounts ==
    wpc = "returned"
        => /\ outcome.kind = "ok"
           /\ outcome = fres
           /\ outcome.val = invocations
           /\ invocations >= 1 /\ invocations <= max_attempts
           /\ invocations = attempt + 1
           /\ sleeps = invocations - 1

C4_Witness ==
    /\ wpc = "returned"
    /\ max_attempts = 3
    /\ invocations = 2 /\ sleeps = 1
    /\ outcome.val = 2

\* the handler is past its choice of the copy path
PastDecision ==
    \/ hpc \in {"copying", "done"}
    \/ hpc = "failed" /\ herror.op # "assume_role"

\* C5: for size < threshold the handler enters copy_object exactly once and
\* no multipart call (create, part copy, complete, abort) is ever issued; for
\* size >= threshold, equality included, it enters multipart_copy exactly
\* once and copy_object is never entered nor called.
C5_CopyPathDecision ==
    /\ object_size < multipart_threshold_bytes
         => /\ paths["multipart_copy"] = 0
            /\ \A o \in {Create, PartCopy, Complete, Abort} : ncalls[o] = 0
            /\ paths["copy_object"] = IF PastDecision THEN 1 ELSE 0
            /\ (hpc = "done" => ncalls["copy_object"] >= 1)
    /\ object_size >= multipart_threshold_bytes
         => /\ paths["copy_object"] = 0
            /\ ncalls["copy_object"] = 0
            /\ paths["multipart_copy"] = IF PastDecision THEN 1 ELSE 0

C5_Witness ==
    /\ object_size = multipart_threshold_bytes
    /\ object_size >= 1
    /\ hpc = "done"
    /\ paths["multipart_copy"] = 1
    /\ ncalls[Complete] = 1

\* C6: for size >= 1 and part size >= 1 the part copies issued by one
\* invocation are parts 1, 2, ... in order, part n with the range
\* [(n-1)*partSize, min(n*partSize, size) - 1]; the first starts at 0, each
\* next one starts one byte after the previous end, none is empty, and when
\* the completion is issued there are ceil(size/partSize) of them, the last
\* ending at size - 1.
C6_PartRangesPartition ==
    (InMultipart /\ object_size >= 1 /\ part_size >= 1)
        => LET pc == PartCalls
               n == CeilOf(object_size, part_size)
           IN  /\ Len(pc) <= n
               /\ (fpc \in {"part", "complete"} => num_parts = n)
               /\ \A j \in 1..Len(pc) :
                    /\ pc[j].part = j
                    /\ pc[j].range =
                         << "bytes=", (j - 1) * part_size, "-",
                            (IF j * part_size <= object_size
                             THEN j * part_size ELSE object_size) - 1 >>
                    /\ pc[j].range[2] <= pc[j].range[4]
                    /\ (j = 1 => pc[j].range[2] = 0)
                    /\ (j > 1 => pc[j].range[2] = pc[j - 1].range[4] + 1)
               /\ CompleteIssued
                    => /\ Len(pc) = n
                       /\ pc[n].range[4] = object_size - 1

C6_Witness ==
    /\ InMultipart
    /\ CompleteIssued
    /\ Len(PartCalls) = 3
    /\ object_size % part_size # 0

\* C7: a completion call is issued only after the create call and all
\* ceil(size/partSize) part copies of the same upload have succeeded, and the
\* list it submits is parts 1..numParts in ascending order, each once, each
\* with the tag its own copy call returned.
C7_CompleteAfterAllParts ==
    \A i \in 1..Len(calls) :
        calls[i].op = Complete
            => /\ part_size >= 1
               /\ LET n == CeilOf(object_size, part_size)
                  IN  /\ i = n + 2
                      /\ calls[1].op = Create /\ calls[1].ok
                      /\ calls[1].upload = calls[i].upload
                      /\ \A j \in 1..n :
                           /\ calls[j + 1].op = PartCopy
                           /\ calls[j + 1].ok
                           /\ calls[j + 1].part = j
                           /\ calls[j + 1].upload = calls[i].upload
                      /\ Len(calls[i].parts) = n
                      /\ \A j \in 1..n :
                           calls[i].parts[j] =
                               [PartNumber |-> j, ETag |-> calls[j + 1].etag]

C7_Witness ==
    /\ LastCallIs(Complete)
    /\ Len(calls) = 5
    /\ calls[2].etag # calls[3].etag
    /\ calls[Len(calls)].ok

\* C8: the error that leaves multipart_copy, and so the wrapper and the
\* handler, is never a failure of the abort call: when the abort call failed,
\* the error raised is the one that triggered the abort.
C8_AbortFailureNotEscalated ==
    /\ fres.exc.op # Abort
    /\ outcome.exc.op # Abort
    /\ last_exception.op # Abort
    /\ herror.op # Abort
    /\ (InMultipart /\ fpc = "exit" /\ LastCallIs(Abort))
         => /\ fres = Raised(exc)
            /\ exc.op \in {PartCopy, Complete, "ceil"}
            /\ exc.at = invocations

C8_Witness ==
    /\ InMultipart /\ fpc = "exit"
    /\ LastCallIs(Abort)
    /\ ~calls[Len(calls)].ok
    /\ wpc = "raised"
    /\ outcome.exc.op = Complete

CreateFailed == InMultipart /\ Len(calls) >= 1 /\ calls[1].op = Create /\ ~calls[1].ok

\* C9: when the create call of an invocation failed, no upload id is recorded
\* and that invocation issues no other remote call (no abort, part copy or
\* completion); the error it raises is the failure of the create call.
C9_CreateFailureNoCleanup ==
    CreateFailed
        => /\ Len(calls) = 1
           /\ upload_id = 0
           /\ fpc \in {"except", "exit"}
           /\ exc.op = Create /\ exc.at = invocations
           /\ (fpc = "exit" => fres = Raised(exc))

C9_Witness ==
    /\ CreateFailed
    /\ hpc = "failed"
    /\ herror.op = Create
    /\ herror.cls = "ClientError"

\* C10: multipart_copy for a size above 5 TiB raises the non-retryable
\* ObjectTooLargeError with no remote call issued, and is invoked once, with
\* no sleep; a size of at most 5 TiB, 5 TiB itself included, is never
\* rejected so and goes on to the create call.
C10_SizeGuard ==
    /\ (InMultipart /\ object_size > 5 * TiB)
         => /\ \A o \in Ops : ncalls[o] = 0
            /\ calls = << >>
            /\ invocations <= 1 /\ sleeps = 0
            /\ fpc \in {"idle", "entry", "exit"}
            /\ (fpc = "exit"
                  => /\ fres.kind = "exc"
                     /\ fres.exc.cls = "ObjectTooLargeError"
                     /\ IsSubclass(fres.exc.cls, "NonRetryableError"))
            /\ wpc # "returned"
            /\ (wpc = "raised" => outcome = fres)
    /\ (InMultipart /\ object_size <= 5 * TiB)
         => /\ fres.exc.cls # "ObjectTooLargeError"
            /\ (fpc \in {"part", "complete", "except", "exit"} => Len(calls) >= 1)

C10_Witness ==
    /\ InMultipart
    /\ object_size = 5 * TiB + 1
    /\ hpc = "failed"
    /\ herror.cls = "ObjectTooLargeError"
    /\ invocations = 1

\* the sequences r with s = p \o r, for a given s: the tails of s
Tails(s) == { SubSeq(s, k, Len(s)) : k \in 1..(Len(s) + 1) }

\* C15: when the source key starts with the source prefix, the destination
\* key is the destination prefix followed by the remainder of the source key
\* after the source prefix; with both prefixes empty it equals the source
\* key; and the transfer handler and the validation handler derive the same
\* destination key from the same key and prefixes.
C15_KeyDerivation ==
    /\ \A h \in derived :
         /\ \A r \in Tails(source_key) :
              source_key = source_prefix \o r => dest_key[h] = dest_prefix \o r
         /\ (source_prefix = << >> /\ dest_prefix = << >>)
              => dest_key[h] = source_key
    /\ derived = Handlers
         => dest_key["transfer_object"] = dest_key["validate_transfer"]

C15_Witness ==
    /\ derived = Handlers
    /\ source_prefix = << "a" >>
    /\ dest_prefix = << "/" >>
    /\ source_key = << "a", "/", "a" >>
    /\ dest_key["validate_transfer"] = << "/", "/", "a" >>

\* C16: when the source key does not start with the source prefix, the
\* destination key is the source key unmodified.
C16_NonMatchingKeyUnmodified ==
    \A h \in derived :
       (\A r \in Tails(source_key) : source_key # source_prefix \o r)
          => dest_key[h] = source_key

\* the handler computed its verdict
Judged == vresult # NoResult

\* the handler drew its sample
PastSampling == vpc \in {"loop", "probing", "done"} \/ Judged

MinOf(a, b) == IF a <= b THEN a ELSE b

\* C17: the computed status is PASSED exactly when the destination count is
\* at least the expected count and the failure list is empty, and FAILED in
\* every other case.
C17_VerdictRule ==
    Judged =>
      /\ vresult.status \in {"PASSED", "FAILED"}
      /\ vresult.status = "PASSED"
           <=> (dest_count >= Len(objects) /\ Len(failures) = 0)
      /\ vresult.total_found = dest_count
      /\ vresult.total_expected = Len(objects)
      /\ vresult.failures = failures

C17_Witness ==
    /\ vpc = "done"
    /\ vresult.status = "PASSED"
    /\ Len(objects) = 2
    /\ dest_count = Len(objects)
    /\ samples_passed = 2

\* C18: the number of entries probed is min(configured sample size,
\* inventory size), the probed entries are distinct entries of the inventory,
\* and with an empty inventory nothing is probed and the run ends with a
\* result, not an error.
C18_SampleSize ==
    /\ PastSampling =>
         /\ Len(samples) = MinOf(validation_sample_size, Len(objects))
         /\ \A i \in 1..Len(samples) : samples[i] \in 1..Len(objects)
         /\ \A i, j \in 1..Len(samples) : i # j => samples[i] # samples[j]
         /\ Len(probe_log) <= Len(samples)
         /\ \A i \in 1..Len(probe_log) : probe_log[i].position = samples[i]
    /\ Judged =>
         /\ Len(probe_log) = MinOf(validation_sample_size, Len(objects))
         /\ vresult.samples_checked = Len(probe_log)
    /\ (PastSampling /\ objects = << >>) =>
         /\ samples = << >> /\ head_calls = 0
         /\ vpc \in {"loop", "done"}
         /\ verror = NoVError
         /\ (vpc = "done" => Judged)

C18_Witness ==
    /\ Judged
    /\ Len(objects) = 2
    /\ validation_sample_size = 3
    /\ Len(probe_log) = 2
    /\ probe_log[1].position = 2

\* C19: a probe that fails (object missing, size mismatch, access denied,
\* retries exhausted, any other error) becomes one failure record and the
\* loop goes on to the next sample: every sampled key has an outcome when
\* the verdict is computed, and the error the handler raises after sampling
\* is never the error of a probe.
C19_ProbeFailuresAreData ==
    /\ Len(probe_log) = sample_i
    /\ Len(failures) + samples_passed = sample_i
    /\ Len(failures) = Cardinality({ i \in 1..Len(probe_log) :
                                       probe_log[i].outcome # "passed" })
    /\ \A i \in 1..Len(failures) :
         /\ failures[i].reason \in {"size_mismatch", "head_object_failed"}
         /\ failures[i].reason = "head_object_failed"
              <=> failures[i].error # NoExc
    /\ Judged => /\ sample_i = Len(samples)
                 /\ \A i \in 1..Len(samples) : probe_log[i].position = samples[i]
    /\ (vpc = "failed" /\ func = "head_object") =>
         /\ Judged
         /\ verror.cls = "ValidationError"
         /\ verror.cause = NoExc

C19_Witness ==
    /\ Judged
    /\ Len(samples) = 2
    /\ probe_log[1].outcome = "head_object_failed"
    /\ failures[1].error.cls = "AccessDeniedError"
    /\ probe_log[2].outcome = "passed"

AssumeRoleExited == func = "assume_role" /\ fpc = "exit"

\* the acquisition of history that last succeeded for the role of history[j],
\* before j (0 if none)
PreviousSuccess(j) ==
    LET earlier == { i \in 1..(j - 1) :
                       history[i].ok /\ history[i].role = history[j].role }
    IN  IF earlier = {} THEN 0
        ELSE CHOOSE i \in earlier : \A k \in earlier : k <= i

\* C11: assume_role calls the remote service exactly when the cache holds no
\* credential for the role, or holds one with now >= expiry - 300.  Of two
\* successive successful acquisitions of a role, the second one made while
\* now < expiry - 300 makes no remote call and returns the same credential;
\* made once now >= expiry - 300 it calls the remote service again and the
\* cached entry is replaced.
C11_CacheHitRule ==
    /\ AssumeRoleExited =>
         LET valid == /\ inv.prior # NoEntry
                      /\ inv.at < inv.prior.expiry - 300
         IN  /\ inv.remote <=> ~valid
             /\ ~inv.remote =>
                  /\ fres.kind = "ok"
                  /\ Credentials(fres.val) = inv.prior.credentials
                  /\ credential_cache[role_arn] = inv.prior
             /\ (inv.remote /\ fres.kind = "ok") =>
                  /\ credential_cache[role_arn].credentials = Credentials(fres.val)
                  /\ credential_cache[role_arn] # inv.prior
    /\ \A j \in 1..Len(history) :
         (history[j].ok /\ PreviousSuccess(j) # 0) =>
            LET first == history[PreviousSuccess(j)]
                second == history[j]
            IN  IF second.at < first.expiry - 300
                THEN /\ second.calls = 0
                     /\ second.credentials = first.credentials
                     /\ second.expiry = first.expiry
                ELSE /\ second.calls >= 1
                     /\ second.credentials # first.credentials
    /\ spc = "idle" =>
         \A j \in 1..Len(history) :
            (history[j].ok /\ \A k \in (j + 1)..Len(history) :
                                 ~(history[k].ok /\ history[k].role = history[j].role))
               => credential_cache[history[j].role] =
                    Entry(history[j].credentials, history[j].expiry)

C11_Witness ==
    /\ Len(history) = 2
    /\ history[1].ok /\ history[1].calls = 1 /\ history[1].at = 0
    /\ history[1].expiry = 600
    /\ history[2].ok /\ history[2].role = history[1].role
    /\ history[2].at = 150
    /\ history[2].calls = 0
    /\ history[2].credentials = history[1].credentials

\* the remote service answered the last call of assume_role with a denial
Denied ==
    /\ AssumeRoleExited
    /\ fres.kind = "exc"
    /\ fres.exc.code \in {"AccessDenied", "AccessDeniedException"}

\* C12: a remote call answered with an authorization denial surfaces as
\* AccessDeniedError, a non-retryable error: the wrapper raises it at once,
\* with no further remote call and no sleep after the denial, so a denial of
\* the first call ends the acquisition after exactly one remote call and no
\* sleep.
C12_AccessDeniedOnce ==
    /\ [](Denied =>
            /\ fres.exc.cls = "AccessDeniedError"
            /\ IsSubclass(fres.exc.cls, "NonRetryableError")
            /\ wpc \in {"running", "raised"}
            /\ sts_calls = invocations
            /\ sleeps = invocations - 1
            /\ wpc = "raised" => outcome = fres
            /\ fres.exc.at = 1 => (sts_calls = 1 /\ sleeps = 0 /\ invocations = 1))
    /\ [][(Denied /\ wpc = "running")
            => /\ wpc' = "raised"
               /\ outcome' = fres
               /\ sts_calls' = sts_calls
               /\ sleeps' = sleeps
               /\ invocations' = invocations]_vars
    /\ []((func = "assume_role" /\ wpc = "raised"
             /\ outcome.exc.cls = "AccessDeniedError")
            => /\ outcome.exc.at = invocations
               /\ sts_calls = invocations
               /\ outcome.exc.code \in {"AccessDenied", "AccessDeniedException"})

C12_Witness ==
    /\ spc = "idle"
    /\ Len(history) = 1
    /\ ~history[1].ok
    /\ outcome.exc.cls = "AccessDeniedError"
    /\ outcome.exc.code = "AccessDeniedException"
    /\ sts_calls = 1
    /\ sleeps = 0
    /\ invocations = 1

\* C13: every failure of the remote call other than a denial, a failure
\* without a service response (no connection) included, is retried up to a
\* total of 3 remote calls of the acquisition, and the acquisition then ends
\* with RetryableError.
C13_OtherFailuresRetried ==
    /\ sts_calls <= 3
    /\ (func = "assume_role" /\ wpc = "raised"
          /\ outcome.exc.cls # "AccessDeniedError")
         => /\ outcome.exc.cls = "RetryableError"
            /\ sts_calls = 3
            /\ invocations = 3

\* C14: with several callers in assume_role for one role at once, under
\* every interleaving, the cache slot of the role holds nothing or one entry
\* whose credentials and expiry come from one and the same successful
\* response; the entry written last is the one that remains; and every
\* caller that returns, returns the complete credentials of some successful
\* response.
C14_ConcurrentCacheIntegrity ==
    /\ \A r \in Roles :
         \/ credential_cache[r] = NoEntry
         \/ \E e \in responses :
              /\ credential_cache[r].credentials = e.credentials
              /\ credential_cache[r].expiry = e.expiry
    /\ \A r \in Roles : r # role_arn => credential_cache[r] = NoEntry
    /\ credential_cache[role_arn] =
         IF stored = << >> THEN NoEntry ELSE stored[Len(stored)]
    /\ \A t \in Threads :
         tpc[t] = "done" =>
            \E e \in responses :
               /\ tret[t].kind = "ok"
               /\ tret[t].val.aws_access_key_id = e.credentials.aws_access_key_id
               /\ tret[t].val.aws_secret_access_key = e.credentials.aws_secret_access_key
               /\ tret[t].val.aws_session_token = e.credentials.aws_session_token

C14_Witness ==
    /\ \A t \in Threads : tpc[t] = "done"
    /\ Len(stored) = 2
    /\ stored[1].credentials = Credentials(2)
    /\ stored[2].credentials = Credentials(1)
    /\ stored[1].expiry # stored[2].expiry
    /\ credential_cache[role_arn] = stored[2]
    /\ tret[1] # tret[2]

-----------------------------------------------------------------------------
\* Classification, exhaustion and backoff

DenialCodes == {"AccessDenied", "403"}
TransientCodes == {"SlowDown", "503", "RequestTimeout", "InternalError"}

ClassifiedFailure(op) ==
    /\ func = op /\ fpc = "exit" /\ fres.kind = "exc"
    /\ fres.exc.code # "none"

\* C21: _classify_s3_error maps every error code to exactly one class:
\* AccessDenied and 403 to AccessDeniedError (non-retryable), SlowDown, 503,
\* RequestTimeout and InternalError to RetryableError, every other code to
\* RetryableError; no code is both retryable and non-retryable, and the error
\* raised by copy_object carries the operation name and the code classified.
C21_ClassifierTotal ==
    /\ \A k \in ErrorCodes :
         /\ k \in DenialCodes => ClassifyS3Error(k) = "AccessDeniedError"
         /\ k \in TransientCodes => ClassifyS3Error(k) = "RetryableError"
         /\ k \notin (DenialCodes \cup TransientCodes)
              => ClassifyS3Error(k) = "RetryableError"
         /\ ~ ( /\ IsSubclass(ClassifyS3Error(k), "RetryableError")
                /\ IsSubclass(ClassifyS3Error(k), "NonRetryableError") )
         /\ \/ IsSubclass(ClassifyS3Error(k), "RetryableError")
            \/ IsSubclass(ClassifyS3Error(k), "NonRetryableError")
    /\ ClassifiedFailure("copy_object")
         => /\ fres.exc.op = "copy_object"
            /\ fres.exc.code \in ErrorCodes
            /\ fres.exc.cls = IF fres.exc.code \in DenialCodes
                              THEN "AccessDeniedError" ELSE "RetryableError"

C21_Witness ==
    /\ ClassifiedFailure("copy_object")
    /\ fres.exc.code = "403"
    /\ fres.exc.cls = "AccessDeniedError"
    /\ fres.exc.op = "copy_object"
    /\ wpc = "raised" /\ invocations = 1

\* C22: when the attempts are exhausted, the error that reaches the caller is
\* the failure raised by the final invocation, as it was raised: the same
\* class, operation and code, raised by invocation max_attempts, and not the
\* failure of an earlier attempt.
C22_ExhaustionIdentity ==
    (wpc = "raised" /\ IsInstance(outcome.exc, retryable_exceptions))
        => /\ outcome = fres
           /\ outcome.kind = "exc"
           /\ outcome.exc = last_exception
           /\ outcome.exc.at = invocations
           /\ invocations = max_attempts
           /\ outcome.exc.cls \in OpRaises

C22_Witness ==
    /\ wpc = "raised"
    /\ retryable_exceptions = {"TransferError"}
    /\ max_attempts = 3
    /\ outcome.exc.cls = "ObjectTooLargeError"
    /\ outcome.exc.at = 3
    /\ sleeps = 2

\* C23: the sleep after zero-indexed attempt k, 0 <= k < max_attempts - 1,
\* lies in [0, min(max_delay, base_delay * 2^k)]: it never exceeds max_delay,
\* the first sleep never exceeds base_delay, and the limit does not decrease
\* with k.
C23_DelayBound ==
    /\ (wpc = "call" /\ attempt >= 1)
         => /\ attempt - 1 < max_attempts - 1
            /\ sleeps = attempt
            /\ 0 <= delay
            /\ delay <= Min(max_delay, base_delay * Pow2(attempt - 1))
            /\ delay <= max_delay
            /\ (attempt = 1 => delay <= base_delay)
    /\ \A k \in 0..(max_attempts - 2) : DelayCap(k) <= DelayCap(k + 1)

C23_Witness ==
    /\ wpc = "call" /\ attempt = 2
    /\ base_delay = 2 /\ max_delay = 3
    /\ delay = 3
    /\ sleeps = 2

-----------------------------------------------------------------------------
\* Retry composition of the copy paths and the outcome of the handler

\* C25: in multipart_copy a transient failure of the create, part-copy or
\* complete call is classified RetryableError and re-attempted: when it is
\* the error that reaches the caller, the 5 invocations have been used.
C25_MultipartTransientRetried ==
    ( /\ InMultipart /\ wpc = "raised"
      /\ outcome.exc.code \in TransientCodes
      /\ outcome.exc.op \in {Create, PartCopy, Complete} )
        => /\ outcome.exc.cls = "RetryableError"
           /\ invocations = S3_MAX_ATTEMPTS

InCopyObject == func = "copy_object"

CopyEntered == paths["copy_object"] + paths["multipart_copy"]

\* C27: the handler returns the SUCCESS receipt only when assume_role
\* succeeded and the copy it then entered returned; when the copy raises,
\* that error leaves the handler and no receipt is returned, and when
\* assume_role raises no copy is entered.
C27_ReceiptOnlyAfterCopy ==
    /\ hpc = "done"
         => /\ CopyEntered = 1
            /\ wpc = "returned" /\ outcome.kind = "ok"
            /\ herror = NoExc
            /\ Len(calls) >= 1 /\ calls[Len(calls)].ok
            /\ calls[Len(calls)].op \in {"copy_object", Complete}
    /\ (hpc = "copying" /\ wpc = "raised") => herror = NoExc
    /\ hpc = "failed"
         => /\ herror # NoExc
            /\ herror.op = "assume_role"
                 => CopyEntered = 0 /\ \A o \in Ops : ncalls[o] = 0
            /\ herror.op # "assume_role"
                 => CopyEntered = 1 /\ wpc = "raised" /\ herror = outcome.exc

C27_Witness ==
    /\ hpc = "failed"
    /\ InCopyObject
    /\ herror.cls = "AccessDeniedError"
    /\ herror.op = "copy_object"
    /\ ncalls["copy_object"] = 1

\* C28: for every retryable set, one that also matches NonRetryableError
\* included, a NonRetryableError raised by the operation is never followed by
\* a sleep and a further invocation.
C28_NonRetryablePrecedence ==
    (wpc \in {"call", "running"} /\ attempt >= 1)
        => ~IsSubclass(last_exception.cls, "NonRetryableError")

\* C29: for every multipart threshold, one above 5 TiB included, an object
\* larger than 5 TiB is rejected as ObjectTooLargeError and no remote call,
\* single copy or multipart, is issued.
C29_SizeGuardEveryThreshold ==
    object_size > MAX_OBJECT_SIZE
        => /\ \A o \in Ops : ncalls[o] = 0
           /\ (hpc = "failed" /\ herror.op # "assume_role")
                => herror.cls = "ObjectTooLargeError"
           /\ hpc # "done"

-----------------------------------------------------------------------------
\* Re-invocation of the transfer and the listing generator

Succeeded == hpc = "done" \/ \E i \in 1..Len(receipts) : receipts[i] = "SUCCESS"

\* C24: however often the handler is invoked with the same task, and whether
\* the later invocations succeed or fail, once one invocation has succeeded
\* the destination key holds one object equal to the source object, and no
\* other key of the destination bucket is ever changed.
C24_CopyIdempotent ==
    /\ DOMAIN dest_objects = StoreKeys
    /\ dest_objects[OtherKey] = OtherObject
    /\ dest_objects[TaskKey] \in {NoObject, SourceObject}
    /\ Succeeded => dest_objects[TaskKey] = SourceObject

C24_Witness ==
    /\ receipts = << "SUCCESS" >>
    /\ hpc = "done"
    /\ InMultipart
    /\ object_size = 3
    /\ ncalls[Complete] = 1
    /\ dest_objects[TaskKey] = << 0, 1, 2 >>

\* C30: a retryable failure of the remote listing while the caller
\* enumerates the pages is re-attempted with backoff: RetryableError reaches
\* the caller only after the listing has been tried 5 times.
C30_ListingRetried ==
    (lpc = "failed" /\ lerror.cls = "RetryableError")
        => /\ invocations = LIST_MAX_ATTEMPTS
           /\ sleeps = LIST_MAX_ATTEMPTS - 1
           /\ list_calls >= LIST_MAX_ATTEMPTS

-----------------------------------------------------------------------------
\* Failures outside the taxonomy and termination of the wrapper

OutsideTaxonomy(e) ==
    /\ ~IsInstance(e, retryable_exceptions)
    /\ ~IsInstance(e, {"NonRetryableError"})

\* C39: when an attempt fails with an error that is neither an instance of
\* the retryable set nor a NonRetryableError, the wrapper's next step lets
\* that same error reach the caller: no sleep, no further invocation.
C39_OtherFailureAtOnce ==
    [][ ( /\ wpc = "running" /\ fpc = "exit" /\ fres.kind = "exc"
          /\ OutsideTaxonomy(fres.exc) )
        => ( /\ wpc' = "raised"
             /\ outcome' = fres
             /\ invocations' = invocations
             /\ sleeps' = sleeps
             /\ attempt' = attempt ) ]_vars

C39_Witness ==
    /\ wpc = "raised"
    /\ retryable_exceptions = {"RetryableError"}
    /\ outcome.exc.cls = "ValueError"
    /\ outcome.exc.at = 1
    /\ max_attempts = 3
    /\ invocations = 1 /\ sleeps = 0

Ended == wpc \in {"returned", "raised"}

\* C40: for every max_attempts >= 1 and every sequence of outcomes the
\* wrapper never invokes the operation more than max_attempts times; if every
\* invocation and sleep ends it eventually returns or raises, and then the
\* number of sleeps is the number of invocations minus one.
C40_TerminatesWithinBudget ==
    /\ [](invocations <= max_attempts)
    /\ <>Ended
    /\ [](Ended => sleeps = invocations - 1)

C40_Witness ==
    /\ wpc = "returned"
    /\ retryable_exceptions = {"ValueError"}
    /\ max_attempts = 3
    /\ invocations = 3 /\ sleeps = 2
    /\ last_exception.cls = "ValueError"

\* the results the handler hands out: the one it returns and the one the
\* ValidationError carries
HandedOut ==
    (IF Judged THEN {vresult} ELSE {})
      \cup (IF verror.cls = "ValidationError" THEN {verror.details} ELSE {})

\* positions of the probe log with the given kind of outcome
ProbesWhere(passed) ==
    { i \in 1..Len(probe_log) : (probe_log[i].outcome = "passed") = passed }

\* C36: in every validation result, returned or carried by the
\* ValidationError, samples_passed + |failures| = samples_checked,
\* 0 <= samples_passed <= samples_checked <= total_expected, every sampled
\* entry is counted in exactly one of the two, and total_expected is the
\* number of inventory entries.
C36_ValidationAccounting ==
    \A r \in HandedOut :
      /\ r.samples_passed + Len(r.failures) = r.samples_checked
      /\ 0 <= r.samples_passed
      /\ r.samples_passed <= r.samples_checked
      /\ r.samples_checked <= r.total_expected
      /\ r.total_expected = Len(objects)
      /\ r.samples_checked = Len(samples)
      /\ Len(probe_log) = Len(samples)
      /\ \A i \in 1..Len(samples) : probe_log[i].position = samples[i]
      /\ Cardinality(ProbesWhere(TRUE)) = r.samples_passed
      /\ Cardinality(ProbesWhere(FALSE)) = Len(r.failures)

C36_Witness ==
    /\ vpc = "failed"
    /\ verror.cls = "ValidationError"
    /\ verror.details.total_expected = 2
    /\ verror.details.samples_checked = 2
    /\ verror.details.samples_passed = 1
    /\ Len(verror.details.failures) = 1
    /\ probe_log[1].outcome = "size_mismatch"
    /\ probe_log[2].outcome = "passed"

\* every inventory entry is in the sample
FullSampling == validation_sample_size >= Len(objects)

\* the destination holds, at the key derived for entry i, an object of the
\* recorded size
Transferred(i) == /\ dest_sizes[i] # Missing
                  /\ dest_sizes[i] = objects[i].Size

\* C37: when the configured sample size is at least the inventory size,
\* validation returns PASSED only if every inventory entry's destination
\* object exists with a size equal to the entry's recorded size.
C37_ExactUnderFullSampling ==
    (FullSampling /\ vpc = "done") =>
      /\ vresult.status = "PASSED"
      /\ \A i \in 1..Len(objects) : Transferred(i)

C37_Witness ==
    /\ vpc = "done"
    /\ FullSampling
    /\ Len(objects) = 2
    /\ head_calls = 2
    /\ vresult.samples_passed = 2
    /\ \A i \in 1..2 : Transferred(i)

\* the keys of an inventory listed under the source prefix, other than the
\* key of the task at hand
OtherMatchingKeys ==
    { k \in Keys : /\ k # source_key
                   /\ \E r \in Tails(k) : k = source_prefix \o r }

\* C38: for fixed source and destination prefixes, two distinct source keys
\* that both start with the source prefix never derive the same destination
\* key.
C38_DerivationInjective ==
    ( /\ "transfer_object" \in derived
      /\ \E r \in Tails(source_key) : source_key = source_prefix \o r )
      => \A k \in OtherMatchingKeys :
           TransferDestKey(k, source_prefix, dest_prefix)
             # dest_key["transfer_object"]

C38_Witness ==
    /\ "transfer_object" \in derived
    /\ source_prefix = << "a" >>
    /\ dest_prefix = << "/" >>
    /\ source_key = << "a", "a" >>
    /\ << "a", "/" >> \in OtherMatchingKeys
    /\ dest_key["transfer_object"] = << "/", "a" >>

\* the upload ids created so far that were neither completed nor had an
\* abort issued
OpenUploads == { u \in 1..Len(uploads) : uploads[u] = "open" }

\* the calls of the current invocation with the given operation
CallsOf(o) == { i \in 1..Len(calls) : calls[i].op = o }

\* C32: every invocation of multipart_copy by its retry wrapper starts a
\* fresh upload with the parts restarted from 1, the abort for the upload of
\* a failed invocation is issued before the create call of the next one, at
\* most one upload id is open at any moment, at most maxAttempts (5) uploads
\* are created, and when multipart_copy has returned or raised every created
\* upload id was completed or had an abort issued.
C32_MultipartLifecycleAcrossRetries ==
    InMultipart =>
      /\ max_attempts = S3_MAX_ATTEMPTS
      /\ ncalls[Create] <= invocations
      /\ invocations <= max_attempts
      /\ Cardinality(OpenUploads) <= 1
      /\ \A u \in OpenUploads :
           /\ u = upload_id
           /\ u = Len(uploads)
           /\ wpc = "running"
           /\ fpc \in {"part", "complete", "except"}
      /\ Cardinality({ i \in CallsOf(Create) : calls[i].ok }) <= 1
      /\ upload_id # 0 =>
           /\ calls[1].op = Create /\ calls[1].ok
           /\ calls[1].upload = upload_id
           /\ upload_id = Len(uploads)
           /\ \A i \in 1..Len(parts) : parts[i].PartNumber = i
           /\ \A i \in 1..Len(calls) : calls[i].upload = upload_id
      /\ wpc \in {"returned", "raised"} =>
           \A u \in 1..Len(uploads) :
             uploads[u] \in {"completed", "aborted", "abort_issued"}

C32_Witness ==
    /\ InMultipart
    /\ wpc = "returned"
    /\ invocations = 2
    /\ uploads = << "abort_issued", "completed" >>
    /\ last_exception.op = PartCopy
    /\ Len(parts) = 2
    /\ calls[1].upload = 2

\* C33: abort_multipart_upload is never issued for an upload whose
\* complete_multipart_upload call returned successfully, complete is never
\* issued after an abort of the same upload id, and at most one complete
\* call is issued per upload id.
C33_CompleteAbortExclusive ==
    InMultipart =>
      /\ \A i \in CallsOf(Complete) : \A j \in CallsOf(Abort) :
           calls[i].upload = calls[j].upload
             => /\ ~calls[i].ok
                /\ i < j
      /\ \A i, j \in CallsOf(Complete) :
           calls[i].upload = calls[j].upload => i = j
      /\ \A i \in CallsOf(Complete) \cup CallsOf(Abort) :
           /\ calls[i].upload = upload_id
           /\ upload_id = Len(uploads)
      /\ \A u \in 1..Len(uploads) :
           uploads[u] = "completed"
             => (u = upload_id => CallsOf(Abort) = {})

C33_Witness ==
    /\ InMultipart
    /\ fpc = "exit"
    /\ fres.kind = "ok"
    /\ uploads[upload_id] = "completed"
    /\ CallsOf(Complete) = {Len(calls)}
    /\ calls[Len(calls)].ok
    /\ CallsOf(Abort) = {}
    /\ Len(receipts) = 1

\* the acquisition at hand failed: the wrapper of assume_role raised
AcquisitionFailed == spc = "acquiring" /\ func = "assume_role" /\ wpc = "raised"

\* C34: a failed acquisition leaves the credential cache unchanged: the
\* cache changes only in the step in which the remote call answers, an
\* invocation that fails writes, replaces and removes no entry of any role,
\* and when the acquisition has failed the entry of its role is the one its
\* last invocation found.
C34_FailedAcquisitionKeepsCache ==
    /\ [][ /\ credential_cache' # credential_cache
              => /\ func = "assume_role" /\ fpc = "entry"
                 /\ fres'.kind = "ok"
                 /\ sts_calls' = sts_calls + 1
                 /\ \A r \in Roles \ {role_arn} :
                      credential_cache'[r] = credential_cache[r]
           /\ (func = "assume_role" /\ fpc = "entry" /\ fres'.kind = "exc")
              => credential_cache' = credential_cache ]_vars
    /\ [](AcquisitionFailed
            => /\ inv.remote
               /\ credential_cache[role_arn] = inv.prior
               /\ ~IsCachedCredentialValid(credential_cache, role_arn, inv.at))

C34_Witness ==
    /\ AcquisitionFailed
    /\ outcome.exc.cls = "AccessDeniedError"
    /\ Len(history) = 1
    /\ history[1].ok /\ history[1].role = role_arn
    /\ credential_cache[role_arn] # NoEntry
    /\ credential_cache[role_arn].credentials = Credentials(1)
    /\ credential_cache[role_arn].expiry = history[1].expiry

\* the cache holds, for the role of the call, an entry outside its expiry
\* buffer
HoldsValidEntry ==
    /\ credential_cache[role_arn] # NoEntry
    /\ now < credential_cache[role_arn].expiry - CREDENTIAL_BUFFER_SECONDS

\* assume_role returned from the cache
CacheHit ==
    /\ func = "assume_role" /\ fpc = "exit"
    /\ fres.kind = "ok" /\ ~inv.remote

\* C31: the cache is keyed by the role alone: while a valid entry exists for
\* the role, assume_role returns its credentials without a remote call
\* whatever session name, external id and duration are passed, so a call with
\* another (or no) external id receives the credential issued for the
\* earlier one.
C31_CacheKeyedByRoleOnly ==
    /\ [][ (/\ wpc = "running" /\ func = "assume_role" /\ fpc = "entry"
            /\ HoldsValidEntry)
           => /\ fres' = Returned(credential_cache[role_arn].credentials.aws_access_key_id)
              /\ sts_calls' = sts_calls
              /\ next_cred' = next_cred
              /\ credential_cache' = credential_cache
              /\ granted' = granted ]_vars
    /\ [](CacheHit
            => /\ call_args \in CallArgs
               /\ fres.val = issued[role_arn].credentials.aws_access_key_id
               /\ granted[role_arn] \in { a.external_id : a \in CallArgs })

C31_Witness ==
    /\ CacheHit
    /\ call_args.external_id = ""
    /\ granted[role_arn] = "ext-1"
    /\ Len(history) = 1
    /\ history[1].ok /\ history[1].role = role_arn
    /\ fres.val = history[1].credentials.aws_access_key_id
    /\ sts_calls = 0

\* assume_role returned credentials to the acquisition in progress
AssumeRoleReturnedOk ==
    /\ spc = "acquiring"
    /\ func = "assume_role" /\ fpc = "exit" /\ fres.kind = "ok"

\* the acquisitions of history that returned credentials for the role
Successes(role) ==
    { i \in 1..Len(history) : history[i].ok /\ history[i].role = role }

\* C35: in every sequence of acquire and clear calls over several roles, the
\* credential assume_role returns for a role is the one of the most recent
\* successful remote assumption of that role: never a credential of another
\* role, never one superseded by a refresh, and after
\* clear_credential_cache the next acquisition of any role makes a remote
\* call.
C35_CacheCoherence ==
    /\ AssumeRoleReturnedOk =>
         /\ issued[role_arn] # NoEntry
         /\ fres.val = issued[role_arn].credentials.aws_access_key_id
         /\ \A r \in Roles \ {role_arn} :
              fres.val # issued[r].credentials.aws_access_key_id
         /\ \A i \in Successes(role_arn) :
              history[i].credentials.aws_access_key_id <= fres.val
         /\ inv.remote =>
              \A i \in 1..Len(history) :
                history[i].credentials.aws_access_key_id < fres.val
         /\ ~inv.remote => role_arn \notin cleared
    /\ \A r \in Roles :
         r \in cleared => credential_cache[r] = NoEntry
    /\ \A i \in 1..Len(history) : \A j \in 1..Len(history) :
         (history[i].ok /\ history[j].ok /\ history[i].role # history[j].role)
           => history[i].credentials # history[j].credentials

C35_Witness ==
    /\ spc = "acquiring" /\ wpc = "returned"
    /\ AssumeRoleReturnedOk
    /\ inv.remote
    /\ Len(history) = 1
    /\ history[1].ok /\ history[1].role = role_arn
    /\ now < history[1].expiry - CREDENTIAL_BUFFER_SECONDS
    /\ cleared = Roles \ {role_arn}
    /\ outcome.val = 2
    /\ credential_cache[role_arn].credentials = Credentials(2)

====
